---- MODULE Spec2Model ----
(***************************************************************************)
(* A model of the debugging bid interceptor                                *)
(* (src/modules/debugging/bidInterceptor.js): the rule registry            *)
(* (updateConfig), the matcher / replacer / paapi compilers, the matching  *)
(* engine (match, matchAll) and the interception orchestrator (intercept)  *)
(* with its timer-driven deliveries.                                       *)
(*                                                                         *)
(* JavaScript values are tagged records; an object is the sequence of its  *)
(* <<key, value>> entries in insertion order, so that Object.keys and      *)
(* Object.entries see the order the program sees.                          *)
(***************************************************************************)
EXTENDS Integers, Sequences, FiniteSets, TLC

VARIABLES
    rules,    \* this.rules: the compiled rule list
    lastConfig, \* the argument of the last updateConfig call
    logged,   \* what the last handler sent to this.logger
    heap,     \* bidRequest objects by reference: the caller's and the clones
    calls,    \* per intercept call: its arguments, its frame, its outcome
    timers,   \* callbacks handed to this.setTimeout and not yet run
    events,   \* invocations of addBid, addPaapiConfig and done, in order
    serialized, \* the last serializeConfig call, until the next call of a handler
    userSync, \* config.getConfig('userSync'), as the page configured it
    riseRequest \* the last buildRequests call of the rise adapter

vars == <<rules, lastConfig, logged, heap, calls, timers, events, serialized,
          userSync, riseRequest>>

----------------------------------------------------------------------------
(* JavaScript values *)

Undefined == [t |-> "undefined"]
Null == [t |-> "null"]
Str(s) == [t |-> "string", s |-> s]
Num(n) == [t |-> "number", n |-> n]
Bool(b) == [t |-> "boolean", b |-> b]
Obj(e) == [t |-> "object", e |-> e]
Arr(a) == [t |-> "array", a |-> a]
RegExp(accepts) == [t |-> "regexp", accepts |-> accepts]
Fun(fn, k) == [t |-> "function", fn |-> fn, k |-> k]
\* the outcome of an evaluation that raised an exception
Throw == [t |-> "throw"]

TypeOf(v) ==
    IF v.t \in {"null", "object", "array", "regexp"} THEN "object" ELSE v.t

Nullish(v) == v.t \in {"undefined", "null"}

Truthy(v) ==
    CASE v.t \in {"undefined", "null"} -> FALSE
      [] v.t = "boolean" -> v.b
      [] v.t = "number" -> v.n # 0
      [] v.t = "string" -> v.s # ""
      [] OTHER -> TRUE

\* a === b for the values of the model (objects are compared by content: the
\* model compares no two distinct objects of equal content with ===)
StrictEq(a, b) == a = b

Has(o, k) == o.t = "object" /\ \E i \in 1..Len(o.e) : o.e[i][1] = k

\* v[k] for a value that is neither undefined nor null
Get(v, k) ==
    IF Has(v, k)
    THEN v.e[CHOOSE i \in 1..Len(v.e) : v.e[i][1] = k][2]
    ELSE Undefined

\* v?.[k]
Opt(v, k) == IF Nullish(v) THEN Undefined ELSE Get(v, k)

\* v?.[i] for an array index i (0-based)
OptIdx(v, i) ==
    IF v.t = "array" /\ i < Len(v.a) THEN v.a[i + 1] ELSE Undefined

\* a ?? b
Coalesce(a, b) == IF Nullish(a) THEN b ELSE a

\* o[k] = v
Put(o, k, v) ==
    IF Has(o, k)
    THEN Obj([i \in 1..Len(o.e) |->
                 IF o.e[i][1] = k THEN <<k, v>> ELSE o.e[i]])
    ELSE Obj(Append(o.e, <<k, v>>))

\* Object.keys(o)
Keys(o) == IF o.t = "object" THEN [i \in 1..Len(o.e) |-> o.e[i][1]] ELSE <<>>

\* String(v), for the values a pattern is tested against
StringOf(v) ==
    CASE v.t = "string" -> v.s
      [] v.t = "undefined" -> "undefined"
      [] v.t = "null" -> "null"
      [] OTHER -> "[object]"

\* A call of an author-supplied function. Such a function is named by what it
\* computes: "const" returns k whatever its arguments are, "bidderIs" tells
\* whether its first argument is a bid of bidder k, "is" whether its first
\* argument is k, "requestIs" whether its second argument is a request of
\* bidderCode k.
Call(f, args) ==
    CASE f.fn = "const" -> f.k
      [] f.fn = "bidderIs" ->
            Bool(Len(args) > 0 /\ StrictEq(Opt(args[1], "bidder"), f.k))
      [] f.fn = "is" -> Bool(Len(args) > 0 /\ StrictEq(args[1], f.k))
      [] f.fn = "requestIs" ->
            Bool(Len(args) > 1 /\ StrictEq(Opt(args[2], "bidderCode"), f.k))
      [] OTHER -> Undefined

----------------------------------------------------------------------------
(* matcher: the compiled predicate, and its evaluation *)

\* matcher taking a definition that is no object for an empty one
matcherLenient(matchDef, ruleNo) ==
    IF TypeOf(matchDef) = "function"
    THEN [kind |-> "function", def |-> matchDef]
    ELSE IF TypeOf(matchDef) # "object"
         THEN [kind |-> "matches", def |-> Obj(<<>>)]
         ELSE [kind |-> "matches", def |-> matchDef]

\* the predicate matcher(matchDef, ruleNo) returns
matcher(matchDef, ruleNo) ==
    IF TypeOf(matchDef) = "function"
    THEN [kind |-> "function", def |-> matchDef]
    ELSE IF TypeOf(matchDef) # "object"
         THEN [kind |-> "never", def |-> Undefined]
         ELSE [kind |-> "matches", def |-> matchDef]

\* what matcher(matchDef, ruleNo) logs
matcherLog(matchDef, ruleNo) ==
    IF TypeOf(matchDef) # "function" /\ TypeOf(matchDef) # "object"
    THEN <<[level |-> "error", about |-> "when", no |-> ruleNo]>>
    ELSE <<>>

\* Object.entries(ref) of a matcher definition node
RefEntries(ref) == IF ref.t = "object" THEN ref.e ELSE <<>>

RECURSIVE matchesSome(_, _, _)
\* matches with one passing key being enough
matchesSome(candidate, ref, args) ==
    IF Nullish(ref) THEN "X"
    ELSE LET es == RefEntries(ref)
             one(i) ==
                 LET key == es[i][1]
                     val == es[i][2]
                 IN  IF Nullish(candidate) THEN "X"
                     ELSE LET cVal == Get(candidate, key)
                          IN  CASE val.t = "regexp" ->
                                     IF StringOf(cVal) \in val.accepts
                                     THEN "T" ELSE "F"
                                [] val.t = "function" ->
                                     IF Truthy(Call(val, <<cVal>> \o args))
                                     THEN "T" ELSE "F"
                                [] TypeOf(val) = "object" ->
                                     matchesSome(cVal, val, args)
                                [] OTHER ->
                                     IF StrictEq(cVal, val) THEN "T" ELSE "F"
             rs == [i \in 1..Len(es) |-> one(i)]
         IN  IF \E i \in 1..Len(es) : rs[i] = "X" THEN "X"
             ELSE IF Len(es) = 0 \/ \E i \in 1..Len(es) : rs[i] = "T"
                  THEN "T" ELSE "F"

RECURSIVE matches(_, _, _)
\* matches(candidate, {ref, args}): "T", "F", or "X" when it raises
matches(candidate, ref, args) ==
    IF Nullish(ref)
    THEN "X"                         \* Object.entries(null)
    ELSE LET es == RefEntries(ref)
             one(i) ==
                 LET key == es[i][1]
                     val == es[i][2]
                 IN  IF Nullish(candidate)
                     THEN "X"        \* candidate[key] of undefined or null
                     ELSE LET cVal == Get(candidate, key)
                          IN  CASE val.t = "regexp" ->
                                     IF StringOf(cVal) \in val.accepts
                                     THEN "T" ELSE "F"
                                [] val.t = "function" ->
                                     IF Truthy(Call(val, <<cVal>> \o args))
                                     THEN "T" ELSE "F"
                                [] TypeOf(val) = "object" ->
                                     matches(cVal, val, args)
                                [] OTHER ->
                                     IF StrictEq(cVal, val) THEN "T" ELSE "F"
             rs == [i \in 1..Len(es) |-> one(i)]
         IN  IF \E i \in 1..Len(es) : rs[i] = "X" THEN "X"
             ELSE IF \A i \in 1..Len(es) : rs[i] = "T" THEN "T" ELSE "F"

\* rule.match(candidate, ...args)
EvalPredicate(pred, candidate, args) ==
    CASE pred.kind = "function" ->
            IF Truthy(Call(pred.def, <<candidate>> \o args)) THEN "T" ELSE "F"
      [] pred.kind = "never" -> "F"
      [] OTHER -> matches(candidate, pred.def, args)

----------------------------------------------------------------------------
(* responseDefaults, the replacer, and the collaborators it calls *)

BANNER == Str("banner")
VIDEO == Str("video")

\* cpm: 3.5764, in units of 1/10000
DEFAULT_CPM == 35764
DEFAULT_TTL == 360

\* responseDefaults taking every bid for a banner bid
responseDefaultsBanner(bid) ==
    LET r0 == Obj(<< <<"requestId", Get(bid, "bidId")>>,
                     <<"cpm", Num(DEFAULT_CPM)>>,
                     <<"currency", Str("EUR")>>,
                     <<"ttl", Num(DEFAULT_TTL)>>,
                     <<"creativeId", Str("mock-creative-id")>>,
                     <<"netRevenue", Bool(FALSE)>>,
                     <<"meta", Obj(<<>>)>> >>)
        r1 == IF ~Truthy(Get(bid, "mediaType"))
              THEN Put(r0, "mediaType", BANNER) ELSE r0
        size == Coalesce(OptIdx(Opt(Opt(Get(bid, "mediaTypes"), "banner"),
                                    "sizes"), 0),
                         Arr(<<Num(300), Num(250)>>))
    IN  Put(Put(r1, "width", OptIdx(size, 0)), "height", OptIdx(size, 1))

\* responseDefaults(bid)
responseDefaults(bid) ==
    LET r0 == Obj(<< <<"requestId", Get(bid, "bidId")>>,
                     <<"cpm", Num(DEFAULT_CPM)>>,
                     <<"currency", Str("EUR")>>,
                     <<"ttl", Num(DEFAULT_TTL)>>,
                     <<"creativeId", Str("mock-creative-id")>>,
                     <<"netRevenue", Bool(FALSE)>>,
                     <<"meta", Obj(<<>>)>> >>)
        ks == Keys(Coalesce(Get(bid, "mediaTypes"), Obj(<<>>)))
        r1 == IF ~Truthy(Get(bid, "mediaType"))
              THEN Put(r0, "mediaType",
                       IF Len(ks) > 0 THEN Str(ks[1]) ELSE BANNER)
              ELSE r0
        mt == Get(r1, "mediaType")
        mts == Get(bid, "mediaTypes")
        size ==
            IF StrictEq(mt, BANNER)
            THEN Coalesce(OptIdx(Opt(Opt(mts, "banner"), "sizes"), 0),
                          Arr(<<Num(300), Num(250)>>))
            ELSE IF StrictEq(mt, VIDEO)
                 THEN Coalesce(OptIdx(Opt(Opt(mts, "video"), "playerSize"), 0),
                               Arr(<<Num(600), Num(500)>>))
                 ELSE Undefined
    IN  IF size.t = "array"
        THEN Put(Put(r1, "width", OptIdx(size, 0)), "height", OptIdx(size, 1))
        ELSE r1

RECURSIVE mergeDeep(_, _)
\* mergeDeep(target, source) of src/utils.js: an object merged into an object
\* field by field, anything else replaced by the source
mergeDeep(target, source) ==
    IF target.t = "object" /\ source.t = "object"
    THEN LET RECURSIVE into(_, _)
             into(acc, i) ==
                 IF i > Len(source.e) THEN acc
                 ELSE LET k == source.e[i][1]
                          v == source.e[i][2]
                      IN  into(Put(acc, k,
                                   IF v.t = "object" /\ Get(acc, k).t = "object"
                                   THEN mergeDeep(Get(acc, k), v)
                                   ELSE v), i + 1)
         IN  into(target, 1)
    ELSE target

\* responseResolvers[response.mediaType] of ./responses.js, applied when there
\* is one: it fills in the payload of a banner or of a video response
resolver(bid, response) ==
    LET mt == Get(response, "mediaType")
    IN  IF StrictEq(mt, BANNER) /\ ~Has(response, "ad")
        THEN Put(response, "ad", Str("mock-ad"))
        ELSE IF StrictEq(mt, VIDEO) /\ ~Has(response, "vastXml")
             THEN Put(response, "vastXml", Str("mock-vast"))
             ELSE response

\* the generator replacer(replDef, ruleNo) returns
replacer(replDef, ruleNo) ==
    IF replDef.t = "null"
    THEN [kind |-> "null", def |-> Null]
    ELSE LET d == IF Truthy(replDef) THEN replDef ELSE Obj(<<>>)
         IN  IF TypeOf(d) = "function"
             THEN [kind |-> "function", def |-> d]
             ELSE IF TypeOf(d) # "object"
                  THEN [kind |-> "empty", def |-> d]
                  ELSE [kind |-> "template", def |-> d]

\* what replacer(replDef, ruleNo) logs
replacerLog(replDef, ruleNo) ==
    IF replDef.t # "null" /\ Truthy(replDef)
       /\ TypeOf(replDef) \notin {"function", "object"}
    THEN <<[level |-> "error", about |-> "then", no |-> ruleNo]>>
    ELSE <<>>

RECURSIVE replFn(_, _)
\* replFn({args, ref}) of an object or array template
replFn(args, ref) ==
    LET leaf(val) ==
            IF TypeOf(val) = "function" THEN Call(val, args)
            ELSE IF ~Nullish(val) /\ TypeOf(val) = "object"
                 THEN replFn(args, val)
                 ELSE val
    IN  IF ref.t = "array"
        THEN Arr([i \in 1..Len(ref.a) |-> leaf(ref.a[i])])
        ELSE LET es == RefEntries(ref)
             IN  Obj([i \in 1..Len(es) |-> <<es[i][1], leaf(es[i][2])>>])

\* replace with the defaults merged over the override
replaceDefaultsWin(gen, bid, args) ==
    IF gen.kind = "null" THEN Null
    ELSE LET over == CASE gen.kind = "function" ->
                              Call(gen.def, <<bid>> \o args)
                       [] gen.kind = "empty" -> Obj(<<>>)
                       [] OTHER -> replFn(<<bid>> \o args, gen.def)
             merged == mergeDeep(over, responseDefaults(bid))
         IN  Put(resolver(bid, merged), "isDebug", Bool(TRUE))

\* rule.replace(bid, ...args)
replace(gen, bid, args) ==
    IF gen.kind = "null" THEN Null
    ELSE LET over == CASE gen.kind = "function" ->
                              Call(gen.def, <<bid>> \o args)
                       [] gen.kind = "empty" -> Obj(<<>>)
                       [] OTHER -> replFn(<<bid>> \o args, gen.def)
             merged == mergeDeep(responseDefaults(bid), over)
         IN  Put(resolver(bid, merged), "isDebug", Bool(TRUE))

----------------------------------------------------------------------------
(* paapiReplacer *)

\* wrap putting every entry under config, whatever its keys
wrapAlways(configs) ==
    LET cs == IF configs.t = "undefined" THEN Arr(<<>>) ELSE configs
    IN  IF cs.t # "array" THEN Throw
        ELSE Arr([i \in 1..Len(cs.a) |-> Obj(<< <<"config", cs.a[i]>> >>)])

\* wrap(configs = []): the normalized configs, or Throw
wrap(configs) ==
    LET cs == IF configs.t = "undefined" THEN Arr(<<>>) ELSE configs
    IN  IF cs.t # "array"
        THEN Throw                      \* configs.map is not a function
        ELSE IF \E i \in 1..Len(cs.a) : Nullish(cs.a[i])
             THEN Throw                 \* Object.keys(null)
             ELSE Arr([i \in 1..Len(cs.a) |->
                        LET config == cs.a[i]
                            ks == Keys(config)
                        IN  IF \E j \in 1..Len(ks) :
                                   ks[j] \notin {"config", "igb"}
                            THEN Obj(<< <<"config", config>> >>)
                            ELSE config])

\* the generator paapiReplacer(paapiDef, ruleNo) returns: undefined when the
\* definition is neither an array nor a function
paapiReplacer(paapiDef, ruleNo) ==
    IF paapiDef.t = "array"
    THEN [kind |-> "array", def |-> paapiDef]
    ELSE IF TypeOf(paapiDef) = "function"
         THEN [kind |-> "function", def |-> paapiDef]
         ELSE [kind |-> "undefined", def |-> Undefined]

\* what paapiReplacer(paapiDef, ruleNo) logs
paapiReplacerLog(paapiDef, ruleNo) ==
    IF paapiDef.t # "array" /\ TypeOf(paapiDef) # "function"
    THEN <<[level |-> "error", about |-> "paapi", no |-> ruleNo]>>
    ELSE <<>>

\* rule.paapi(bid, bidRequest): the configs, or Throw
paapi(gen, args) ==
    CASE gen.kind = "array" -> wrap(gen.def)
      [] gen.kind = "function" -> wrap(Call(gen.def, args))
      [] OTHER -> Throw                 \* rule.paapi is not a function

----------------------------------------------------------------------------
(* The rule registry and the matching engine *)

\* DEFAULT_RULE_OPTIONS
DEFAULT_RULE_OPTIONS == Obj(<< <<"delay", Num(0)>> >>)

\* Object.assign({}, a, b)
ObjectAssign(a, b) ==
    LET RECURSIVE into(_, _)
        into(acc, i) ==
            IF i > Len(RefEntries(b)) THEN acc
            ELSE into(Put(acc, b.e[i][1], b.e[i][2]), i + 1)
    IN  into(a, 1)

\* rule(ruleDef, ruleNo)
rule(ruleDef, ruleNo) ==
    [no |-> ruleNo,
     match |-> matcher(Get(ruleDef, "when"), ruleNo),
     replace |-> replacer(Get(ruleDef, "then"), ruleNo),
     options |-> ObjectAssign(DEFAULT_RULE_OPTIONS, Get(ruleDef, "options")),
     paapi |-> paapiReplacer(IF Truthy(Get(ruleDef, "paapi"))
                             THEN Get(ruleDef, "paapi") ELSE Arr(<<>>),
                             ruleNo)]

\* what rule(ruleDef, ruleNo) logs
ruleLog(ruleDef, ruleNo) ==
    matcherLog(Get(ruleDef, "when"), ruleNo)
    \o replacerLog(Get(ruleDef, "then"), ruleNo)
    \o paapiReplacerLog(IF Truthy(Get(ruleDef, "paapi"))
                        THEN Get(ruleDef, "paapi") ELSE Arr(<<>>), ruleNo)

\* config.intercept || []
InterceptList(cfg) ==
    IF Truthy(Get(cfg, "intercept")) THEN Get(cfg, "intercept").a
    ELSE <<>>

\* the rule list updateConfig(config) assigns to this.rules
compileRules(cfg) ==
    LET defs == InterceptList(cfg)
    IN  [i \in 1..Len(defs) |-> rule(defs[i], i)]

RECURSIVE find(_, _, _, _)
\* rs.find(rule => rule.match(candidate, ...args)), from index i on: what it
\* found ("rule" at index at, "none", or "throw" when a predicate raised) and
\* how many predicates it evaluated
find(rs, candidate, args, i) ==
    IF i > Len(rs)
    THEN [found |-> "none", at |-> 0, evaluated |-> Len(rs)]
    ELSE LET r == EvalPredicate(rs[i].match, candidate, args)
         IN  IF r = "X" THEN [found |-> "throw", at |-> i, evaluated |-> i]
             ELSE IF r = "T" THEN [found |-> "rule", at |-> i, evaluated |-> i]
             ELSE find(rs, candidate, args, i + 1)

\* match with the scan not stopping at the first rule whose predicate matches:
\* it reports the last one
matchLast(rs, candidate, args) ==
    LET hits == {k \in 1..Len(rs) :
                    EvalPredicate(rs[k].match, candidate, args) = "T"}
    IN  IF hits = {} THEN [found |-> "none", at |-> 0, evaluated |-> Len(rs)]
        ELSE [found |-> "rule",
              at |-> CHOOSE k \in hits : \A h \in hits : h <= k,
              evaluated |-> Len(rs)]

\* match(candidate, ...args) over the rule list rs
match(rs, candidate, args) == find(rs, candidate, args, 1)

RECURSIVE matchAllFrom(_, _, _, _, _)
matchAllFrom(rs, bids, bidRequest, i, acc) ==
    IF i > Len(bids) THEN acc
    ELSE LET m == match(rs, bids[i], <<bidRequest>>)
             seen == [acc EXCEPT !.scans = Append(@, m)]
         IN  IF m.found = "throw" THEN [seen EXCEPT !.threw = TRUE]
             ELSE IF m.found = "rule"
                  THEN matchAllFrom(rs, bids, bidRequest, i + 1,
                         [seen EXCEPT !.matches =
                             Append(@, [rule |-> rs[m.at], bid |-> bids[i]])])
                  ELSE matchAllFrom(rs, bids, bidRequest, i + 1,
                         [seen EXCEPT !.remainder = Append(@, bids[i])])

\* matchAll putting each unmatched bid in front of the remainder
matchAllUnshift(rs, bids, bidRequest) ==
    LET r == matchAllFrom(rs, bids, bidRequest, 1,
                 [threw |-> FALSE, matches |-> <<>>, remainder |-> <<>>,
                  scans |-> <<>>])
    IN  [r EXCEPT !.remainder =
            [i \in 1..Len(@) |-> @[Len(@) + 1 - i]]]

\* matchAll(bids, bidRequest): the matches and the remainder; threw when a
\* predicate raised; scans records what each call of match did
matchAll(rs, bids, bidRequest) ==
    matchAllFrom(rs, bids, bidRequest, 1,
                 [threw |-> FALSE, matches |-> <<>>, remainder |-> <<>>,
                  scans |-> <<>>])

----------------------------------------------------------------------------
(* Bounds and the inputs drawn within them *)

MaxRules == 2     \* rule definitions in one configuration
MaxBids == 2      \* bids in one batch
MaxDelay == 1     \* options.delay of a rule definition

\* the intercept calls told apart: at most two are in flight at a time
CallIds == {1, 2}

\* the reference of the bidRequest object call c is given, and of its clone
InRef(c) == 2 * c - 1
CloneRef(c) == 2 * c
Refs == UNION {{InRef(c), CloneRef(c)} : c \in CallIds}

Field(k, v) == <<k, v>>

Bid1 ==
    Obj(<< Field("bidId", Str("1")), Field("bidder", Str("a")),
           Field("params", Obj(<< Field("placement", Str("p")) >>)),
           Field("mediaTypes", Obj(<< Field("banner",
               Obj(<< Field("sizes",
                   Arr(<< Arr(<<Num(728), Num(90)>>) >>)) >>)) >>)) >>)
Bid2 ==
    Obj(<< Field("bidId", Str("2")), Field("bidder", Str("b")),
           Field("mediaTypes", Obj(<< Field("video", Obj(<<>>)),
                                      Field("banner", Obj(<<>>)) >>)) >>)

Bids == {Bid1, Bid2}

SeqsUpTo(S, n) == UNION {[1..k -> S] : k \in 0..n}

Batches == SeqsUpTo(Bids, MaxBids)

\* the umbrella request of a batch
Request(batch) ==
    Obj(<< Field("bidderCode", Str("x")), Field("bids", Arr(batch)) >>)

\* the `bids` argument: omitted, or a list of the caller's own
BidsArgs(batch) ==
    {Undefined, Arr(IF Len(batch) = 0 THEN <<>> ELSE Tail(batch))}

Delays == 0..MaxDelay

\* {when: {bidder: 'a'}, options: {delay: d}}
DefA(d) ==
    Obj(<< Field("when", Obj(<< Field("bidder", Str("a")) >>)),
           Field("options", Obj(<< Field("delay", Num(d)) >>)) >>)
\* {when: bid => bid.bidder === 'b', then: null,
\*  paapi: [{seller: 'x'}, {config: {seller: 'y'}, igb: []}], options: {delay: 1}}
DefB ==
    Obj(<< Field("when", Fun("bidderIs", Str("b"))),
           Field("then", Null),
           Field("paapi", Arr(<<
               Obj(<< Field("seller", Str("x")) >>),
               Obj(<< Field("config", Obj(<< Field("seller", Str("y")) >>)),
                      Field("igb", Arr(<<>>)) >>) >>)),
           Field("options", Obj(<< Field("delay", Num(1)) >>)) >>)
\* {when: {}, then: {cpm: () => 9.99}, paapi: () => [{seller: 'z'}]}
DefAny ==
    Obj(<< Field("when", Obj(<<>>)),
           Field("then", Obj(<< Field("cpm", Fun("const", Num(99900))) >>)),
           Field("paapi", Fun("const",
               Arr(<< Obj(<< Field("seller", Str("z")) >>) >>))) >>)
\* {when: {params: {placement: 'p'}}, then: () => ({cpm: 1}), paapi: {seller: 'x'}}
DefNested ==
    Obj(<< Field("when", Obj(<< Field("params",
               Obj(<< Field("placement", Str("p")) >>)) >>)),
           Field("then", Fun("const", Obj(<< Field("cpm", Num(10000)) >>))),
           Field("paapi", Obj(<< Field("seller", Str("x")) >>)) >>)

RuleDefs == {DefA(d) : d \in Delays} \cup {DefB, DefAny, DefNested}

\* the configurations updateConfig is called with
Configs ==
    {Obj(<<>>)}
    \cup {Obj(<< Field("intercept", Arr(defs)) >>) :
             defs \in SeqsUpTo(RuleDefs, MaxRules)}

\* Definitions with one field out of the ordinary, and the bids they are
\* tried on

\* an object of the fields whose value is not undefined
Fields(fs) == Obj(SelectSeq(fs, LAMBDA f : f[2] # Undefined))

\* {when: w, then: {cpm: 1}}
WhenDef(w) ==
    Fields(<< Field("when", w),
              Field("then", Obj(<< Field("cpm", Num(10000)) >>)) >>)
\* {when: {}, then: t}
ThenDef(t) == Fields(<< Field("when", Obj(<<>>)), Field("then", t) >>)
\* {when: {}, paapi: p}
PaapiDef(p) == Fields(<< Field("when", Obj(<<>>)), Field("paapi", p) >>)
\* {when: {bidder: /a/}}
DefRegex ==
    Obj(<< Field("when", Obj(<< Field("bidder", RegExp({"a"})) >>)) >>)
\* {when: bid => bid.bidder === 'a', options: {suppressWarnings: true}}
DefFnQuiet ==
    Obj(<< Field("when", Fun("bidderIs", Str("a"))),
           Field("options",
                 Obj(<< Field("suppressWarnings", Bool(TRUE)) >>)) >>)

\* {bidder: v => v === 'a', bidId: '1'}
WhenFnAndValue ==
    Obj(<< Field("bidder", Fun("is", Str("a"))), Field("bidId", Str("1")) >>)
\* {bidder: /a|b/,
\*  mediaTypes: {banner: (v, req) => req.bidderCode === 'x', video: {}}}
WhenPatternAndNested ==
    Obj(<< Field("bidder", RegExp({"a", "b"})),
           Field("mediaTypes",
                 Obj(<< Field("banner", Fun("requestIs", Str("x"))),
                        Field("video", Obj(<<>>)) >>)) >>)

WhenProbes ==
    {Undefined, Null, Str("a"), Num(1), Bool(TRUE),
     WhenFnAndValue, WhenPatternAndNested}
ThenProbes ==
    {Num(0), Str(""), Bool(FALSE), Num(7), Str("x"), Bool(TRUE),
     Obj(<< Field("isDebug", Bool(FALSE)), Field("cpm", Num(50000)) >>)}
PaapiProbes ==
    {Undefined, Num(0), Str("x"),
     Arr(<< Obj(<< Field("seller", Str("x")) >>) >>),
     Obj(<< Field("seller", Str("x")) >>),
     Fun("const", Null), Fun("const", Undefined)}

ProbeDefs ==
    {WhenDef(w) : w \in WhenProbes} \cup {ThenDef(t) : t \in ThenProbes}
    \cup {PaapiDef(p) : p \in PaapiProbes} \cup {DefRegex, DefFnQuiet}

\* a well-formed definition to go along: {when: {bidder: 'a'}, options: {delay: 1}}
Companion == DefA(1)

\* a definition alone, or before or after the well-formed one
ProbeConfigs ==
    {Obj(<<>>)}
    \cup UNION {{Obj(<< Field("intercept", Arr(<<d>>)) >>),
                 Obj(<< Field("intercept", Arr(<<d, Companion>>)) >>),
                 Obj(<< Field("intercept", Arr(<<Companion, d>>)) >>)} :
                    d \in ProbeDefs}

\* {bidId: '3', bidder: 'c', mediaTypes: {native: {}}}
Bid3 ==
    Obj(<< Field("bidId", Str("3")), Field("bidder", Str("c")),
           Field("mediaTypes", Obj(<< Field("native", Obj(<<>>)) >>)) >>)
\* {bidId: '4', bidder: 'a', mediaType: 'banner'}
Bid4 ==
    Obj(<< Field("bidId", Str("4")), Field("bidder", Str("a")),
           Field("mediaType", Str("banner")) >>)

\* {bidId: '5', bidder: 'b', mediaTypes: {video: {playerSize: [[640, 480]]}}}
Bid5 ==
    Obj(<< Field("bidId", Str("5")), Field("bidder", Str("b")),
           Field("mediaTypes", Obj(<< Field("video",
               Obj(<< Field("playerSize",
                   Arr(<< Arr(<<Num(640), Num(480)>>) >>)) >>)) >>)) >>)
\* {bidId: '6', bidder: 'c'}
Bid6 == Obj(<< Field("bidId", Str("6")), Field("bidder", Str("c")) >>)

ProbeBids == {Bid1, Bid2, Bid3, Bid4, Bid5, Bid6}

----------------------------------------------------------------------------
(* The operations *)

IdleCall ==
    [status |-> "idle", bids |-> Undefined, req |-> 0, given |-> Undefined,
     rules |-> <<>>,
     batch |-> <<>>, scans |-> <<>>, matches |-> <<>>, deliveries |-> <<>>,
     remainder |-> <<>>, latch |-> 0, evals |-> <<>>,
     frameReq |-> 0, ret |-> [bids |-> Undefined, bidRequest |-> 0]]

\* no serializeConfig call to speak of
NotSerialized == [called |-> FALSE, given |-> <<>>, ret |-> <<>>]

----------------------------------------------------------------------------
(* The rise bid adapter: the user-sync method buildRequests announces *)

BIDDER_CODE == "rise"
ADAPTER_VERSION == "6.0.0"
SELLER_ENDPOINT == "https://hb.yellowblue.io/"
MODES == [PRODUCTION |-> "hb-multi", TEST |-> "hb-multi-test"]
SUPPORTED_SYNC_METHODS == [IFRAME |-> "iframe", PIXEL |-> "pixel"]

\* isSyncMethodAllowed taking a rule of any filter for a permission
isSyncMethodAllowedAnyFilter(syncRule, bidderCode) ==
    IF ~Truthy(syncRule) THEN FALSE
    ELSE LET listed == Get(syncRule, "bidders")
             bidders == IF listed.t = "array" THEN listed.a
                        ELSE <<Str(bidderCode)>>
         IN  \E i \in 1..Len(bidders) : StrictEq(bidders[i], Str(bidderCode))

\* isSyncMethodAllowed(syncRule, bidderCode)
isSyncMethodAllowed(syncRule, bidderCode) ==
    IF ~Truthy(syncRule) THEN FALSE
    ELSE LET isInclude == StrictEq(Get(syncRule, "filter"), Str("include"))
             listed == Get(syncRule, "bidders")
             bidders == IF listed.t = "array" THEN listed.a
                        ELSE <<Str(bidderCode)>>
         IN  /\ isInclude
             /\ \E i \in 1..Len(bidders) : StrictEq(bidders[i], Str(bidderCode))

\* getAllowedSyncMethod(filterSettings, bidderCode): the method, or undefined
getAllowedSyncMethod(filterSettings, bidderCode) ==
    LET iframeConfigsToCheck == <<"all", "iframe">>
        pixelConfigToCheck == "image"
    IN  IF /\ Truthy(filterSettings)
           /\ \E i \in 1..Len(iframeConfigsToCheck) :
                 isSyncMethodAllowed(
                     Get(filterSettings, iframeConfigsToCheck[i]), bidderCode)
        THEN Str(SUPPORTED_SYNC_METHODS.IFRAME)
        ELSE IF \/ ~Truthy(filterSettings)
                \/ ~Truthy(Get(filterSettings, pixelConfigToCheck))
                \/ isSyncMethodAllowed(
                       Get(filterSettings, pixelConfigToCheck), bidderCode)
             THEN Str(SUPPORTED_SYNC_METHODS.PIXEL)
             ELSE Undefined

\* getEndpoint(testMode)
getEndpoint(testMode) ==
    IF Truthy(testMode) THEN SELLER_ENDPOINT \o MODES.TEST
    ELSE SELLER_ENDPOINT \o MODES.PRODUCTION

\* o with o[k] = v when the condition holds, o otherwise
PutIf(cond, o, k, v) == IF cond THEN Put(o, k, v) ELSE o

\* generateGeneralParams(generalObject, bidderRequest), reading the userSync
\* configuration us. The entries that are read from the page and the browser
\* (the domain, the user agent, the clock, the user ids, the ortb2 metadata,
\* the supply chain, the referrer) are left out: no entry depends on another.
generateGeneralParams(generalObject, bidderRequest, us) ==
    LET conf == IF Truthy(us) THEN us ELSE Obj(<<>>)
        syncEnabled == Get(conf, "syncEnabled")
        filterSettings == Get(conf, "filterSettings")
        bidderCode == Get(bidderRequest, "bidderCode")
        generalBidParams == Get(generalObject, "params")
        p0 == Obj(<< <<"wrapper_type", Str("prebidjs")>>,
                     <<"adapter_version", Str(ADAPTER_VERSION)>>,
                     <<"publisher_id", Get(generalBidParams, "org")>> >>)
        allowedSyncMethod == getAllowedSyncMethod(filterSettings, bidderCode.s)
        p1 == PutIf(Truthy(syncEnabled) /\ Truthy(allowedSyncMethod),
                    p0, "cs_method", allowedSyncMethod)
        p2 == PutIf(Truthy(Get(bidderRequest, "uspConsent")),
                    p1, "us_privacy", Get(bidderRequest, "uspConsent"))
        gdprConsent == Get(bidderRequest, "gdprConsent")
        applies == Truthy(gdprConsent)
                       /\ Truthy(Get(gdprConsent, "gdprApplies"))
        p3 == PutIf(applies, p2, "gdpr", Opt(gdprConsent, "gdprApplies"))
        p4 == PutIf(applies, p3, "gdpr_consent",
                    Opt(gdprConsent, "consentString"))
    IN  PutIf(Truthy(Get(generalBidParams, "ifa")),
              p4, "ifa", Get(generalBidParams, "ifa"))

\* isBanner(bid)
isBanner(bid) ==
    Truthy(Get(bid, "mediaTypes"))
        /\ Truthy(Get(Get(bid, "mediaTypes"), "banner"))

\* generateBidsParams(validBidRequests, bidderRequest): of every bid object,
\* the media type and the bid id
generateBidsParams(validBidRequests, bidderRequest) ==
    Arr([i \in 1..Len(validBidRequests) |->
            Obj(<< <<"mediaType",
                     IF isBanner(validBidRequests[i]) THEN BANNER
                     ELSE VIDEO>>,
                   <<"bid_id", Get(validBidRequests[i], "bidId")>> >>)])

\* what spec.buildRequests(validBidRequests, bidderRequest) returns
buildRequests(validBidRequests, bidderRequest, us) ==
    LET generalObject == validBidRequests[1]
        testMode == Get(Get(generalObject, "params"), "testMode")
    IN  Obj(<< <<"method", Str("POST")>>,
               <<"url", Str(getEndpoint(testMode))>>,
               <<"data",
                 Obj(<< <<"params",
                          generateGeneralParams(generalObject, bidderRequest,
                                                us)>>,
                        <<"bids",
                          generateBidsParams(validBidRequests,
                                             bidderRequest)>> >>)>> >>)

\* no buildRequests call yet
NotBuilt == [built |-> FALSE, userSync |-> Undefined, ret |-> Undefined]

\* a filter rule of userSync.filterSettings
SyncRule(bidders, filter) ==
    Obj(<< <<"bidders", bidders>>, <<"filter", Str(filter)>> >>)

IncludeRise == SyncRule(Arr(<<Str(BIDDER_CODE)>>), "include")
IncludeEvery == SyncRule(Str("*"), "include")
IncludeOther == SyncRule(Arr(<<Str("other")>>), "include")
ExcludeRise == SyncRule(Arr(<<Str(BIDDER_CODE)>>), "exclude")

\* the filter settings a page may configure: every key is absent or holds a rule
FilterSettings ==
    { Obj(SelectSeq(<< <<"all", a>>, <<"iframe", f>>, <<"image", g>> >>,
                    LAMBDA e : e[2] # Undefined)) :
        a \in {Undefined, IncludeRise, IncludeEvery, ExcludeRise},
        f \in {Undefined, IncludeRise, IncludeOther, ExcludeRise},
        g \in {Undefined, IncludeRise, ExcludeRise} }

\* the userSync configurations a page may set
UserSyncs ==
    { Obj(<< <<"syncEnabled", Bool(e)>> >>) : e \in BOOLEAN }
        \cup { Obj(<< <<"syncEnabled", Bool(e)>>, <<"filterSettings", fs>> >>) :
                  e \in BOOLEAN, fs \in FilterSettings }

\* the bid requests of the adapter's tests
RiseBid ==
    Obj(<< <<"bidder", Str(BIDDER_CODE)>>,
           <<"adUnitCode", Str("adunit-code")>>,
           <<"params", Obj(<< <<"org", Str("jdye8weeyirk00000001")>> >>)>>,
           <<"bidId", Str("299ffc8cca0b87")>> >>)

RiseBidderRequest == Obj(<< <<"bidderCode", Str(BIDDER_CODE)>> >>)


\* BidInterceptor(opts)
Init ==
    /\ rules = <<>>
    /\ lastConfig = Obj(<<>>)
    /\ logged = <<>>
    /\ heap = [r \in Refs |-> Undefined]
    /\ calls = [c \in CallIds |-> IdleCall]
    /\ timers = {}
    /\ events = <<>>
    /\ serialized = NotSerialized
    /\ userSync = Undefined
    /\ riseRequest = NotBuilt

\* updateConfig adding the compiled rules to the list instead of replacing it
UpdateConfigAppend(cfg) ==
    /\ rules' = rules \o compileRules(cfg)
    /\ lastConfig' = cfg
    /\ logged' = <<>>
    /\ serialized' = NotSerialized
    /\ UNCHANGED <<userSync, riseRequest>>
    /\ UNCHANGED <<heap, calls, timers, events>>

\* updateConfig taking back the callbacks that are pending
UpdateConfigDropsPending(cfg) ==
    /\ rules' = compileRules(cfg)
    /\ lastConfig' = cfg
    /\ logged' = <<>>
    /\ serialized' = NotSerialized
    /\ UNCHANGED <<userSync, riseRequest>>
    /\ timers' = {}
    /\ UNCHANGED <<heap, calls, events>>

\* updateConfig(config)
UpdateConfig(cfg) ==
    /\ rules' = compileRules(cfg)
    /\ lastConfig' = cfg
    /\ logged' =
         LET defs == InterceptList(cfg)
             RECURSIVE all(_)
             all(i) == IF i > Len(defs) THEN <<>>
                       ELSE ruleLog(defs[i], i) \o all(i + 1)
         IN  all(1)
    /\ serialized' = NotSerialized
    /\ UNCHANGED <<userSync, riseRequest>>
    /\ UNCHANGED <<heap, calls, timers, events>>

RECURSIVE hasNonSerializableProperty(_)
\* hasNonSerializableProperty(obj) of src/utils.js: whether a function or a
\* regular expression occurs anywhere in the structure of obj
hasNonSerializableProperty(obj) ==
    CASE obj.t = "object" ->
            \E i \in 1..Len(obj.e) :
                \/ obj.e[i][2].t \in {"function", "regexp"}
                \/ hasNonSerializableProperty(obj.e[i][2])
      [] obj.t = "array" ->
            \E i \in 1..Len(obj.a) :
                \/ obj.a[i].t \in {"function", "regexp"}
                \/ hasNonSerializableProperty(obj.a[i])
      [] OTHER -> FALSE

\* deepAccess(obj, 'k1.k2') of src/utils.js
deepAccess(obj, k1, k2) == Opt(Opt(obj, k1), k2)

\* isSerializable(ruleDef, i) of serializeConfig: what it returns
isSerializable(ruleDef, i) == ~hasNonSerializableProperty(ruleDef)

\* isSerializable naming the 0-based position and heeding no suppressWarnings
isSerializableLogRaw(ruleDef, i) ==
    IF ~isSerializable(ruleDef, i)
    THEN <<[level |-> "warn", about |-> "serialize", no |-> i]>>
    ELSE <<>>

\* isSerializable(ruleDef, i) of serializeConfig: what it logs
isSerializableLog(ruleDef, i) ==
    IF ~isSerializable(ruleDef, i)
       /\ ~Truthy(deepAccess(ruleDef, "options", "suppressWarnings"))
    THEN <<[level |-> "warn", about |-> "serialize", no |-> i + 1]>>
    ELSE <<>>

RECURSIVE filterFrom(_, _)
\* ruleDefs.filter(isSerializable), from 0-based index i on: the definitions
\* kept and the warnings logged on the way
filterFrom(ruleDefs, i) ==
    IF i >= Len(ruleDefs) THEN [kept |-> <<>>, log |-> <<>>]
    ELSE LET rest == filterFrom(ruleDefs, i + 1)
             def == ruleDefs[i + 1]
         IN  [kept |-> (IF isSerializable(def, i) THEN <<def>> ELSE <<>>)
                        \o rest.kept,
              log |-> isSerializableLog(def, i) \o rest.log]

\* serializeConfig making the definitions it keeps the active rules
SerializeConfigActivates(ruleDefs) ==
    LET r == filterFrom(ruleDefs, 0)
    IN  /\ serialized' = [called |-> TRUE, given |-> ruleDefs, ret |-> r.kept]
        /\ UNCHANGED <<userSync, riseRequest>>
        /\ logged' = r.log
        /\ rules' = [i \in 1..Len(r.kept) |-> rule(r.kept[i], i)]
        /\ UNCHANGED <<lastConfig, heap, calls, timers, events>>

\* serializeConfig(ruleDefs)
SerializeConfig(ruleDefs) ==
    LET r == filterFrom(ruleDefs, 0)
    IN  /\ serialized' = [called |-> TRUE, given |-> ruleDefs, ret |-> r.kept]
        /\ UNCHANGED <<userSync, riseRequest>>
        /\ logged' = r.log
        /\ UNCHANGED <<rules, lastConfig, heap, calls, timers, events>>

\* lines 239-241 for every match: the rule's number, the bid, the mock
\* response, the mock PAAPI configs (Throw when the generator raised) and the
\* delay
synthesize(ms, bidRequest) ==
    [i \in 1..Len(ms) |->
        [no |-> ms[i].rule.no,
         bid |-> ms[i].bid,
         mockResponse |-> replace(ms[i].rule.replace, ms[i].bid, <<bidRequest>>),
         mockPaapi |-> paapi(ms[i].rule.paapi, <<ms[i].bid, bidRequest>>),
         delay |-> Get(ms[i].rule.options, "delay")]]

\* the generator calls of lines 239-240 made for the first n of the matches
\* ms, in order: the rule's replace, then its paapi
evaluations(ms, n) ==
    [k \in 1..(2 * n) |->
        LET i == (k + 1) \div 2
        IN  [gen |-> IF k % 2 = 1 THEN "replace" ELSE "paapi",
             idx |-> i, no |-> ms[i].rule.no, bid |-> ms[i].bid]]

\* how many of the matches got their timer before a generator raised
Scheduled(syn) ==
    IF \E i \in 1..Len(syn) : syn[i].mockPaapi = Throw
    THEN (CHOOSE i \in 1..Len(syn) :
             /\ syn[i].mockPaapi = Throw
             /\ \A j \in 1..(i - 1) : syn[j].mockPaapi # Throw) - 1
    ELSE Len(syn)

\* deepClone(bidRequest) of src/utils.js: a new object of the same content
deepClone(hp, ref, newRef) == [hp EXCEPT ![newRef] = hp[ref]]

\* delayExecution(done, n) of src/utils.js: the countdown starts at n
delayExecution(n) == n
\* callDone(): one unit of completion
callDone(latch) == latch - 1
\* whether this callDone() calls done
callDoneFires(latch) == callDone(latch) = 0

\* the timers handed over with no delay
deliveryTimersNoDelay(c, syn, n) ==
    {[call |-> c, kind |-> "delivery", idx |-> i, remaining |-> 0] : i \in 1..n}

\* the timers the forEach of lines 238-248 hands to this.setTimeout
deliveryTimers(c, syn, n) ==
    {[call |-> c, kind |-> "delivery", idx |-> i,
      remaining |-> syn[i].delay.n] : i \in 1..n}

\* this.setTimeout(done, 1)
doneTimerLate(c) == [call |-> c, kind |-> "done", idx |-> 0, remaining |-> 1]

\* this.setTimeout(done, 0)
doneTimer(c) == [call |-> c, kind |-> "done", idx |-> 0, remaining |-> 0]

\* intercept returning the bids it worked on, matched ones included
returnedBidsAll(bids, remainder) == bids

\* what intercept returns as bids when some bid matched
returnedBids(bids, remainder) == Arr(remainder)

\* c is the number the next intercept call goes by: the lowest one not in use
FreeCall(c) ==
    /\ calls[c].status = "idle"
    /\ \A k \in CallIds : k < c => calls[k].status # "idle"

\* intercept assigning the remainder to the caller's bidRequest object instead
\* of a copy of it
InterceptInPlace(c, bidsArg, request) ==
    /\ FreeCall(c)
    /\ LET bidRequest == request
           bids == IF Nullish(bidsArg) THEN Get(bidRequest, "bids") ELSE bidsArg
           m == matchAll(rules, bids.a, bidRequest)
           hp == [heap EXCEPT ![InRef(c)] = request]
           base == [IdleCall EXCEPT !.bids = bidsArg, !.req = InRef(c),
                                    !.given = request,
                                    !.rules = rules, !.batch = bids.a,
                                    !.scans = m.scans]
       IN  IF m.threw
           THEN /\ calls' = [calls EXCEPT ![c] =
                                [base EXCEPT !.status = "threw"]]
                /\ heap' = hp
                /\ logged' = <<>>
                /\ UNCHANGED <<timers>>
           ELSE IF Len(m.matches) > 0
           THEN LET syn == synthesize(m.matches, bidRequest)
                    n == Scheduled(syn)
                    sched == [base EXCEPT
                                !.matches = m.matches,
                                !.deliveries = SubSeq(syn, 1, n),
                                !.remainder = m.remainder,
                                !.evals = evaluations(m.matches,
                                    IF n < Len(syn) THEN n + 1 ELSE n),
                                !.latch = delayExecution(Len(m.matches))]
                IN  /\ timers' = timers \cup deliveryTimers(c, syn, n)
                    /\ logged' = [i \in 1..n |->
                                    [level |-> "message", about |-> "intercept",
                                     no |-> syn[i].no]]
                    /\ IF n < Len(syn)
                       THEN /\ calls' = [calls EXCEPT ![c] =
                                  [sched EXCEPT !.status = "threw",
                                                !.frameReq = InRef(c)]]
                            /\ heap' = hp
                       ELSE /\ calls' = [calls EXCEPT ![c] =
                                  [sched EXCEPT
                                     !.status = "returned",
                                     !.frameReq = InRef(c),
                                     !.ret = [bids |->
                                                returnedBids(bids, m.remainder),
                                              bidRequest |-> InRef(c)]]]
                            /\ heap' = [hp EXCEPT ![InRef(c)] =
                                            Put(@, "bids", Arr(m.remainder))]
           ELSE /\ timers' = timers \cup {doneTimer(c)}
                /\ calls' = [calls EXCEPT ![c] =
                               [base EXCEPT
                                  !.status = "returned",
                                  !.remainder = m.remainder,
                                  !.frameReq = InRef(c),
                                  !.ret = [bids |-> bids,
                                           bidRequest |-> InRef(c)]]]
                /\ heap' = hp
                /\ logged' = <<>>
    /\ serialized' = NotSerialized
    /\ UNCHANGED <<userSync, riseRequest>>
    /\ UNCHANGED <<rules, lastConfig, events>>

\* intercept({bids, bidRequest, addBid, addPaapiConfig, done}) as call c, the
\* caller's bidRequest object being `request`
Intercept(c, bidsArg, request) ==
    /\ FreeCall(c)
    /\ LET bidRequest == request
           bids == IF Nullish(bidsArg) THEN Get(bidRequest, "bids") ELSE bidsArg
           m == matchAll(rules, bids.a, bidRequest)
           hp == [heap EXCEPT ![InRef(c)] = request]
           base == [IdleCall EXCEPT !.bids = bidsArg, !.req = InRef(c),
                                    !.given = request,
                                    !.rules = rules, !.batch = bids.a,
                                    !.scans = m.scans]
       IN  IF m.threw
           THEN /\ calls' = [calls EXCEPT ![c] =
                                [base EXCEPT !.status = "threw"]]
                /\ heap' = hp
                /\ logged' = <<>>
                /\ UNCHANGED <<timers>>
           ELSE IF Len(m.matches) > 0
           THEN LET syn == synthesize(m.matches, bidRequest)
                    n == Scheduled(syn)
                    sched == [base EXCEPT
                                !.matches = m.matches,
                                !.deliveries = SubSeq(syn, 1, n),
                                !.remainder = m.remainder,
                                !.evals = evaluations(m.matches,
                                    IF n < Len(syn) THEN n + 1 ELSE n),
                                !.latch = delayExecution(Len(m.matches))]
                IN  /\ timers' = timers \cup deliveryTimers(c, syn, n)
                    /\ logged' = [i \in 1..n |->
                                    [level |-> "message", about |-> "intercept",
                                     no |-> syn[i].no]]
                    /\ IF n < Len(syn)
                       THEN /\ calls' = [calls EXCEPT ![c] =
                                  [sched EXCEPT !.status = "threw",
                                                !.frameReq = InRef(c)]]
                            /\ heap' = hp
                       ELSE /\ calls' = [calls EXCEPT ![c] =
                                  [sched EXCEPT
                                     !.status = "returned",
                                     !.frameReq = CloneRef(c),
                                     !.ret = [bids |->
                                                returnedBids(bids, m.remainder),
                                              bidRequest |-> CloneRef(c)]]]
                            /\ heap' = [deepClone(hp, InRef(c), CloneRef(c))
                                          EXCEPT ![CloneRef(c)] =
                                            Put(@, "bids", Arr(m.remainder))]
           ELSE /\ timers' = timers \cup {doneTimer(c)}
                /\ calls' = [calls EXCEPT ![c] =
                               [base EXCEPT
                                  !.status = "returned",
                                  !.remainder = m.remainder,
                                  !.frameReq = InRef(c),
                                  !.ret = [bids |-> bids,
                                           bidRequest |-> InRef(c)]]]
                /\ heap' = hp
                /\ logged' = <<>>
    /\ serialized' = NotSerialized
    /\ UNCHANGED <<userSync, riseRequest>>
    /\ UNCHANGED <<rules, lastConfig, events>>

Event(c, i, op, arg, bid, req) ==
    [call |-> c, idx |-> i, op |-> op, arg |-> arg, bid |-> bid, req |-> req]

DoneEvent(c, i) == Event(c, i, "done", Undefined, Undefined, 0)

\* the callback returning early, after callDone(), when the response is null
deliverSkipNull(c, i, d, frameReq, latch) ==
    (IF Truthy(d.mockResponse)
     THEN <<Event(c, i, "addBid", d.mockResponse, d.bid, 0)>>
          \o [j \in 1..Len(d.mockPaapi.a) |->
                Event(c, i, "addPaapiConfig", d.mockPaapi.a[j], d.bid, frameReq)]
     ELSE <<>>)
    \o (IF callDoneFires(latch) THEN <<DoneEvent(c, i)>> ELSE <<>>)

\* the callback calling addBid whatever the response is
deliverAddBidAlways(c, i, d, frameReq, latch) ==
    <<Event(c, i, "addBid", d.mockResponse, d.bid, 0)>>
    \o [j \in 1..Len(d.mockPaapi.a) |->
          Event(c, i, "addPaapiConfig", d.mockPaapi.a[j], d.bid, frameReq)]
    \o (IF callDoneFires(latch) THEN <<DoneEvent(c, i)>> ELSE <<>>)

\* the callback with callDone() called before the side effects
deliverDoneFirst(c, i, d, frameReq, latch) ==
    (IF callDoneFires(latch) THEN <<DoneEvent(c, i)>> ELSE <<>>)
    \o (IF Truthy(d.mockResponse)
        THEN <<Event(c, i, "addBid", d.mockResponse, d.bid, 0)>> ELSE <<>>)
    \o [j \in 1..Len(d.mockPaapi.a) |->
          Event(c, i, "addPaapiConfig", d.mockPaapi.a[j], d.bid, frameReq)]

\* the callback passing the auxiliary configs before the response
deliverPaapiFirst(c, i, d, frameReq, latch) ==
    [j \in 1..Len(d.mockPaapi.a) |->
        Event(c, i, "addPaapiConfig", d.mockPaapi.a[j], d.bid, frameReq)]
    \o (IF Truthy(d.mockResponse)
        THEN <<Event(c, i, "addBid", d.mockResponse, d.bid, 0)>> ELSE <<>>)
    \o (IF callDoneFires(latch) THEN <<DoneEvent(c, i)>> ELSE <<>>)

\* the callback of lines 243-247 for delivery d of call c, run with the
\* countdown at latch: the invocations it makes, in order
deliver(c, i, d, frameReq, latch) ==
    (IF Truthy(d.mockResponse)
     THEN <<Event(c, i, "addBid", d.mockResponse, d.bid, 0)>> ELSE <<>>)
    \o [j \in 1..Len(d.mockPaapi.a) |->
          Event(c, i, "addPaapiConfig", d.mockPaapi.a[j], d.bid, frameReq)]
    \o (IF callDoneFires(latch) THEN <<DoneEvent(c, i)>> ELSE <<>>)

\* the callback calling the rule's generators itself, when it runs
FireLazy(tm) ==
    /\ tm \in timers
    /\ tm.remaining = 0
    /\ timers' = timers \ {tm}
    /\ IF tm.kind = "done"
       THEN /\ events' = Append(events, DoneEvent(tm.call, 0))
            /\ UNCHANGED calls
       ELSE LET c == tm.call
                d == calls[c].deliveries[tm.idx]
            IN  /\ events' = events \o deliver(c, tm.idx, d, calls[c].frameReq,
                                               calls[c].latch)
                /\ calls' = [calls EXCEPT
                      ![c].latch = callDone(@),
                      ![c].evals = @ \o SubSeq(evaluations(calls[c].matches,
                                          tm.idx), 2 * tm.idx - 1, 2 * tm.idx)]
    /\ UNCHANGED <<rules, lastConfig, logged, heap, serialized,
                 userSync, riseRequest>>

\* the callbacks of all calls counting down one counter together
FireShared(tm) ==
    /\ tm \in timers
    /\ tm.remaining = 0
    /\ timers' = timers \ {tm}
    /\ IF tm.kind = "done"
       THEN /\ events' = Append(events, DoneEvent(tm.call, 0))
            /\ UNCHANGED calls
       ELSE LET c == tm.call
                d == calls[c].deliveries[tm.idx]
            IN  /\ events' = events \o deliver(c, tm.idx, d, calls[c].frameReq,
                                               calls[c].latch)
                /\ calls' = [k \in CallIds |->
                               [calls[k] EXCEPT !.latch =
                                   IF @ > 0 THEN callDone(@) ELSE @]]
    /\ UNCHANGED <<rules, lastConfig, logged, heap, serialized,
                 userSync, riseRequest>>

\* the scheduling primitive runs a callback whose delay has elapsed
Fire(tm) ==
    /\ tm \in timers
    /\ tm.remaining = 0
    /\ timers' = timers \ {tm}
    /\ IF tm.kind = "done"
       THEN /\ events' = Append(events, DoneEvent(tm.call, 0))
            /\ UNCHANGED calls
       ELSE LET c == tm.call
                d == calls[c].deliveries[tm.idx]
            IN  /\ events' = events \o deliver(c, tm.idx, d, calls[c].frameReq,
                                               calls[c].latch)
                /\ calls' = [calls EXCEPT ![c].latch = callDone(@)]
    /\ UNCHANGED <<rules, lastConfig, logged, heap, serialized,
                 userSync, riseRequest>>

\* the callback of lines 243-247 run with an addBid or addPaapiConfig that
\* raises at its k-th invocation: the exception leaves the callback there
FireRaising(tm, k) ==
    /\ tm \in timers
    /\ tm.remaining = 0
    /\ tm.kind = "delivery"
    /\ LET c == tm.call
           d == calls[c].deliveries[tm.idx]
           sides == (IF Truthy(d.mockResponse) THEN 1 ELSE 0)
                    + Len(d.mockPaapi.a)
       IN  /\ k \in 1..sides
           /\ events' = events \o SubSeq(deliver(c, tm.idx, d,
                                    calls[c].frameReq, calls[c].latch), 1, k)
    /\ timers' = timers \ {tm}
    /\ UNCHANGED <<rules, lastConfig, logged, heap, calls, serialized,
                 userSync, riseRequest>>


\* one unit of time passes while no callback is due
Tick ==
    /\ timers # {}
    /\ \A tm \in timers : tm.remaining > 0
    /\ timers' = {[tm EXCEPT !.remaining = @ - 1] : tm \in timers}
    /\ UNCHANGED <<rules, lastConfig, logged, heap, calls, events, serialized,
                 userSync, riseRequest>>

\* the caller is through with call c, nothing of it being pending any more,
\* and forgets what it recorded of it
Release(c) ==
    /\ calls[c].status # "idle"
    /\ \A tm \in timers : tm.call # c
    /\ calls' = [calls EXCEPT ![c] = IdleCall]
    /\ events' = SelectSeq(events, LAMBDA e : e.call # c)
    /\ heap' = [heap EXCEPT ![InRef(c)] = Undefined, ![CloneRef(c)] = Undefined]
    /\ logged' = <<>>
    /\ serialized' = NotSerialized
    /\ UNCHANGED <<userSync, riseRequest>>
    /\ UNCHANGED <<rules, lastConfig, timers>>

Quiet == \A c \in CallIds : calls[c].status = "idle"

Next ==
    \/ \E cfg \in Configs : Quiet /\ UpdateConfig(cfg)
    \/ Quiet /\ SerializeConfig(InterceptList(lastConfig))
    \/ \E c \in CallIds, batch \in Batches :
          \E bidsArg \in BidsArgs(batch) :
              Quiet /\ Intercept(c, bidsArg, Request(batch))
    \/ \E tm \in timers : Fire(tm)
    \/ Tick
    \/ \E c \in CallIds : Release(c)

Spec == Init /\ [][Next]_vars

\* The same operations, on the definitions with a field out of the ordinary
\* and one bid at a time; serializeConfig is called at any moment
NextDefs ==
    \/ \E cfg \in ProbeConfigs : Quiet /\ UpdateConfig(cfg)
    \/ SerializeConfig(InterceptList(lastConfig))
    \/ \E c \in CallIds, bid \in ProbeBids :
          Quiet /\ Intercept(c, Undefined, Request(<<bid>>))
    \/ \E tm \in timers : Fire(tm)
    \/ Tick
    \/ \E c \in CallIds : Release(c)

SpecDefs == Init /\ [][NextDefs]_vars

\* Calls in flight together: intercept is called while the callbacks of an
\* earlier call are pending, and so is updateConfig
FlightConfigs ==
    {Obj(<<>>),
     Obj(<< Field("intercept", Arr(<<DefA(1)>>)) >>),
     Obj(<< Field("intercept", Arr(<<DefAny>>)) >>)}

FlightBatches == {<<Bid1>>, <<Bid2, Bid1>>}

NextFlight ==
    \/ \E cfg \in FlightConfigs : UpdateConfig(cfg)
    \/ \E c \in CallIds, batch \in FlightBatches :
          Intercept(c, Undefined, Request(batch))
    \/ \E tm \in timers : Fire(tm)
    \/ Tick
    \/ \E c \in CallIds : Release(c)

SpecFlight == Init /\ [][NextFlight]_vars

\* The callbacks the caller supplies may raise: addBid or addPaapiConfig
\* raises at some invocation, or none does
RaisingAt == {1, 2}

RaisingConfigs ==
    FlightConfigs
    \cup {Obj(<< Field("intercept", Arr(<<DefB>>)) >>),
          Obj(<< Field("intercept", Arr(<<DefA(0), DefAny>>)) >>)}

RaisingBatches == FlightBatches \cup {<<Bid1, Bid2>>}

NextRaising ==
    \/ \E cfg \in RaisingConfigs : Quiet /\ UpdateConfig(cfg)
    \/ \E c \in CallIds, batch \in RaisingBatches :
          Quiet /\ Intercept(c, Undefined, Request(batch))
    \/ \E tm \in timers : Fire(tm)
    \/ \E tm \in timers, k \in RaisingAt : FireRaising(tm, k)
    \/ Tick
    \/ \E c \in CallIds : Release(c)

SpecRaising == Init /\ [][NextRaising]_vars

\* config.setConfig({userSync: us})
SetConfig(us) ==
    /\ userSync' = us
    /\ UNCHANGED <<rules, lastConfig, logged, heap, calls, timers, events,
                   serialized, riseRequest>>

\* spec.buildRequests(validBidRequests, bidderRequest) of the rise adapter
BuildRequests(validBidRequests, bidderRequest) ==
    /\ riseRequest' =
         [built |-> TRUE, userSync |-> userSync,
          ret |-> buildRequests(validBidRequests, bidderRequest, userSync)]
    /\ UNCHANGED <<rules, lastConfig, logged, heap, calls, timers, events,
                   serialized, userSync>>

\* The rise adapter under the configurations of the page.
NextRise ==
    \/ \E us \in UserSyncs : SetConfig(us)
    \/ BuildRequests(<<RiseBid>>, RiseBidderRequest)

SpecRise == Init /\ [][NextRise]_vars


TypeOK ==
    /\ Len(rules) <= MaxRules
    /\ \A c \in CallIds : calls[c].latch >= 0
    /\ \A tm \in timers : tm.remaining \in 0..MaxDelay

----------------------------------------------------------------------------
(* What the claims speak of *)

\* the positions in events of the invocations call c made
Pos(c) == {p \in 1..Len(events) : events[p].call = c}

\* the positions at which call c's done was invoked
DonePos(c) == {p \in Pos(c) : events[p].op = "done"}

\* the positions of the side effects (addBid, addPaapiConfig) of delivery i
SidePos(c, i) == {p \in Pos(c) : events[p].idx = i /\ events[p].op # "done"}

\* delivery i of call c was handed to the scheduling primitive and has run
Fired(c, i) ==
    /\ i \in 1..Len(calls[c].deliveries)
    /\ \A tm \in timers : ~(tm.call = c /\ tm.kind = "delivery" /\ tm.idx = i)

\* the number of side effects delivery i owes: its addBid, when its response
\* is not null, and one addPaapiConfig per auxiliary config
Owed(c, i) ==
    LET d == calls[c].deliveries[i]
    IN  (IF d.mockResponse # Null THEN 1 ELSE 0) + Len(d.mockPaapi.a)

\* the outcome of rule k's predicate on bid b of request req
Pred(rs, k, b, req) == EvalPredicate(rs[k].match, b, <<req>>)

\* some rule's predicate matches b
Matches(rs, b, req) == \E k \in 1..Len(rs) : Pred(rs, k, b, req) = "T"

\* the lowest ordinal among the rules whose predicate matches b
FirstMatch(rs, b, req) ==
    CHOOSE k \in 1..Len(rs) :
        /\ Pred(rs, k, b, req) = "T"
        /\ \A h \in 1..(k - 1) : Pred(rs, h, b, req) # "T"

\* matchAll of call c returned (no predicate raised)
MatchAllReturned(c) ==
    /\ calls[c].status # "idle"
    /\ \A j \in 1..Len(calls[c].scans) : calls[c].scans[j].found # "throw"

\* the umbrella request call c was given, as it was at the call
GivenRequest(c) == calls[c].given

\* the bids call c works on: the `bids` it was given, else bidRequest.bids
GivenBids(c) ==
    IF Nullish(calls[c].bids) THEN Get(GivenRequest(c), "bids")
    ELSE calls[c].bids

\* the bids of call c's batch that no rule matches, in batch order
Unmatched(c) ==
    SelectSeq(calls[c].batch,
              LAMBDA b : ~Matches(calls[c].rules, b, GivenRequest(c)))

\* what delivery i of call c passed to addBid and addPaapiConfig, in order
SideEffects(c, i) ==
    LET es == SelectSeq(events, LAMBDA e :
                  e.call = c /\ e.idx = i /\ e.op # "done")
    IN  [k \in 1..Len(es) |-> <<es[k].op, es[k].arg, es[k].bid>>]

\* the deliveries of call c that have run
FiredSet(c) == {i \in 1..Len(calls[c].deliveries) : Fired(c, i)}

\* the callbacks of call c the scheduling primitive still holds
Pending(c) == {tm \in timers : tm.call = c}

----------------------------------------------------------------------------
(* C1: in a call with one or more matches, done is never invoked before    *)
(* every delivery of the call has run and made all its side effects (its   *)
(* addBid and its addPaapiConfig calls), whatever the delays are, and it   *)
(* is invoked once the last delivery has signalled completion.             *)
C1_DoneAfterAllDeliveries ==
    \A c \in CallIds :
        Len(calls[c].matches) > 0 =>
            /\ \A p \in DonePos(c) : \A i \in 1..Len(calls[c].matches) :
                  /\ Fired(c, i)
                  /\ Cardinality(SidePos(c, i)) = Owed(c, i)
                  /\ \A q \in SidePos(c, i) : q < p
            /\ (\A i \in 1..Len(calls[c].matches) : Fired(c, i))
                  => DonePos(c) # {}

\* done was invoked in a call of two deliveries of different delays, the one
\* that comes first in the batch having the larger delay and side effects
C1_Witness ==
    \E c \in CallIds :
        /\ DonePos(c) # {}
        /\ Len(calls[c].deliveries) >= 2
        /\ calls[c].deliveries[1].delay.n > calls[c].deliveries[2].delay.n
        /\ Owed(c, 1) > 0

(* C3: match returns the rule with the lowest ordinal whose predicate      *)
(* matches the candidate, nothing when no predicate matches, and it does   *)
(* not evaluate the predicates of the rules after the first matching one.  *)
C3_FirstMatchWins ==
    \A c \in CallIds : \A j \in 1..Len(calls[c].scans) :
        LET s == calls[c].scans[j]
            b == calls[c].batch[j]
            rs == calls[c].rules
        IN  /\ s.found = "rule" =>
                 /\ s.at \in 1..Len(rs)
                 /\ Pred(rs, s.at, b, GivenRequest(c)) = "T"
                 /\ \A k \in 1..(s.at - 1) : Pred(rs, k, b, GivenRequest(c)) # "T"
                 /\ s.evaluated = s.at
            /\ s.found = "none" => ~Matches(rs, b, GivenRequest(c))

\* match returned the first of two rules that both match the candidate
C3_Witness ==
    \E c \in CallIds : \E j \in 1..Len(calls[c].scans) :
        /\ calls[c].scans[j].found = "rule"
        /\ calls[c].scans[j].at = 1
        /\ Len(calls[c].rules) >= 2
        /\ Pred(calls[c].rules, 2, calls[c].batch[j], GivenRequest(c)) = "T"

(* C4: matchAll returns the matches and the unmatched bids such that their *)
(* numbers add up to the batch length, a bid is among the matches iff      *)
(* match returns a rule for it, paired with that rule, and both sequences  *)
(* keep the order of the batch.                                            *)
C4_MatchAllPartitions ==
    \A c \in CallIds :
        MatchAllReturned(c) =>
            LET r == calls[c]
                req == GivenRequest(c)
            IN  /\ Len(r.matches) + Len(r.remainder) = Len(r.batch)
                /\ [i \in 1..Len(r.matches) |-> r.matches[i].bid]
                     = SelectSeq(r.batch, LAMBDA b : Matches(r.rules, b, req))
                /\ r.remainder
                     = SelectSeq(r.batch, LAMBDA b : ~Matches(r.rules, b, req))
                /\ \A i \in 1..Len(r.matches) :
                     r.matches[i].rule
                       = r.rules[FirstMatch(r.rules, r.matches[i].bid, req)]

\* matchAll split a batch into bids that match and bids that do not
C4_Witness ==
    \E c \in CallIds :
        /\ MatchAllReturned(c)
        /\ Len(calls[c].matches) >= 1
        /\ Len(calls[c].remainder) >= 1
        /\ Len(calls[c].batch) >= 2

(* C2: for every intercept call, once the scheduling primitive has run     *)
(* every callback the call handed to it, done has been invoked, and it is  *)
(* invoked exactly once over the call's lifetime.                          *)
C2_DoneExactlyOnce ==
    \A c \in CallIds :
        /\ Cardinality(DonePos(c)) <= 1
        /\ (calls[c].status # "idle" /\ Pending(c) = {})
              => Cardinality(DonePos(c)) = 1

\* what does hold of done: never twice, and once every callback has run when
\* the call returned
DoneOnceWhenReturned ==
    \A c \in CallIds :
        /\ Cardinality(DonePos(c)) <= 1
        /\ (calls[c].status = "returned" /\ Pending(c) = {})
              => Cardinality(DonePos(c)) = 1

(* C5: when at least one bid matches, intercept returns a bidRequest that  *)
(* is another object than the one given, a copy of it whose bid list is    *)
(* the unmatched bids in input order, and returns these as bids; no bid    *)
(* that matched a rule is among them.                                      *)
C5_ReturnsCopyWithUnmatched ==
    \A c \in CallIds :
        (calls[c].status = "returned" /\ Len(calls[c].matches) > 0) =>
            LET ret == calls[c].ret
            IN  /\ ret.bidRequest # calls[c].req
                /\ heap[ret.bidRequest]
                     = Put(GivenRequest(c), "bids", Arr(Unmatched(c)))
                /\ ret.bids = Arr(Unmatched(c))
                /\ \A i \in 1..Len(calls[c].matches) :
                     \A k \in 1..Len(ret.bids.a) :
                        ret.bids.a[k] # calls[c].matches[i].bid

\* intercept returned from a batch of a matching bid and another bid
C5_Witness ==
    \E c \in CallIds :
        /\ calls[c].status = "returned"
        /\ Len(calls[c].matches) > 0
        /\ Len(calls[c].ret.bids.a) > 0

C7_NullResponseStillCompletes ==
    \A c \in CallIds :
        /\ \A i \in FiredSet(c) :
              calls[c].matches[i].rule.replace.kind = "null" =>
                 LET d == calls[c].deliveries[i]
                 IN  /\ d.mockResponse = Null
                     /\ SideEffects(c, i) =
                          [j \in 1..Len(d.mockPaapi.a) |->
                              <<"addPaapiConfig", d.mockPaapi.a[j], d.bid>>]
        /\ calls[c].latch = Len(calls[c].matches) - Cardinality(FiredSet(c))
        /\ (calls[c].latch = 0 /\ Len(calls[c].matches) > 0)
              => DonePos(c) # {}

\* done was invoked after the delivery of a rule whose `then` is null, which
\* passed two auxiliary configs
C7_Witness ==
    \E c \in CallIds : \E i \in FiredSet(c) :
        /\ calls[c].matches[i].rule.replace.kind = "null"
        /\ Len(SideEffects(c, i)) = 2
        /\ DonePos(c) # {}

(* C8: addBid is invoked exactly once for every matched bid whose response *)
(* is not null, with that response and that bid, when its delivery runs;   *)
(* never for a bid that matched no rule, and never twice for one match.    *)
C8_AddBidOncePerResponse ==
    \A c \in CallIds :
        LET adds == {p \in Pos(c) : events[p].op = "addBid"}
        IN  /\ \A p \in adds :
                 LET i == events[p].idx
                 IN  /\ i \in 1..Len(calls[c].deliveries)
                     /\ events[p].arg = calls[c].deliveries[i].mockResponse
                     /\ events[p].arg # Null
                     /\ events[p].bid = calls[c].matches[i].bid
                     /\ Matches(calls[c].rules, events[p].bid, GivenRequest(c))
            /\ \A i \in 1..Len(calls[c].deliveries) :
                 Cardinality({p \in adds : events[p].idx = i})
                   = IF Fired(c, i) /\ calls[c].deliveries[i].mockResponse # Null
                     THEN 1 ELSE 0

\* all deliveries of a call of two matches have run: one with a response,
\* one without
C8_Witness ==
    \E c \in CallIds :
        /\ calls[c].status = "returned"
        /\ DonePos(c) # {}
        /\ \E i, j \in 1..Len(calls[c].deliveries) :
              /\ calls[c].deliveries[i].mockResponse # Null
              /\ calls[c].deliveries[j].mockResponse = Null
        /\ Len(calls[c].remainder) = 0

(* C9: the deliveries of one call run in the order of their delays, not of *)
(* the batch: when rule A's delay is larger than rule B's, B's side        *)
(* effects happen before A's, and done happens after both.                 *)
C9_DelayOrder ==
    \A c \in CallIds : \A i, j \in 1..Len(calls[c].deliveries) :
        calls[c].deliveries[i].delay.n > calls[c].deliveries[j].delay.n =>
            /\ Fired(c, i) => Fired(c, j)
            /\ \A p \in SidePos(c, i), q \in SidePos(c, j) : q < p
            /\ \A p \in DonePos(c), q \in SidePos(c, i) \cup SidePos(c, j) : q < p

\* the second bid's side effects came before the first bid's, whose rule has
\* the larger delay, and done came last
C9_Witness ==
    \E c \in CallIds :
        /\ Len(calls[c].deliveries) = 2
        /\ calls[c].deliveries[1].delay.n > calls[c].deliveries[2].delay.n
        /\ SidePos(c, 1) # {}
        /\ SidePos(c, 2) # {}
        /\ \A p \in SidePos(c, 1), q \in SidePos(c, 2) : q < p
        /\ DonePos(c) # {}

(* C10: after updateConfig the rule list is one compiled rule per rule     *)
(* definition of the configuration, in authoring order, with the ordinals  *)
(* 1..N; nothing of the list before is left, and a configuration without   *)
(* an intercept list gives the empty list.                                 *)
C10_RulesAreTheCompiledConfig ==
    LET defs == IF Has(lastConfig, "intercept")
                THEN Get(lastConfig, "intercept").a ELSE <<>>
    IN  /\ Len(rules) = Len(defs)
        /\ \A i \in 1..Len(rules) :
              /\ rules[i].no = i
              /\ rules[i] = rule(defs[i], i)
        /\ \A i, j \in 1..Len(rules) : i < j => rules[i].no < rules[j].no

\* a configuration of two rule definitions is active
C10_Witness ==
    /\ Len(rules) = 2
    /\ Has(lastConfig, "intercept")
    /\ rules[1].match # rules[2].match

----------------------------------------------------------------------------
(* What the claims on rule definitions speak of *)

\* the definitions of the configuration loaded last
Defs == InterceptList(lastConfig)

\* the step is a call of updateConfig
UpdateConfigStep == UpdateConfig(lastConfig')

\* the step is a call of serializeConfig
SerializeStep == serialized'.called /\ SerializeConfig(serialized'.given)

\* the `when` of a definition is neither a function nor an object
BadWhen(def) == TypeOf(Get(def, "when")) \notin {"function", "object"}

\* the candidates and contexts a predicate is put to
Candidates == ProbeBids \cup {Undefined, Null, Str("a"), Obj(<<>>)}
Contexts == {Request(<<b>>) : b \in ProbeBids} \cup {Undefined}

\* the rules of rs whose definition in defs has a well-typed `when`
WithoutBadWhen(rs, defs) ==
    LET keep == {i \in 1..Len(rs) : ~BadWhen(defs[i])}
        RECURSIVE from(_)
        from(i) == IF i > Len(rs) THEN <<>>
                   ELSE (IF i \in keep THEN <<rs[i]>> ELSE <<>>) \o from(i + 1)
    IN  from(1)

----------------------------------------------------------------------------
(* C11: whatever the rule definitions loaded through updateConfig are,     *)
(* malformed ones included, and whatever the batch is, intercept raises no *)
(* exception: every call returns an outcome.                               *)
C11_InterceptNeverRaises ==
    \A c \in CallIds : calls[c].status # "threw"

----------------------------------------------------------------------------
(* C12: a rule whose `when` is neither a function nor an object is         *)
(* compiled with an error logged that names its ordinal, its predicate is  *)
(* false for every candidate and context, it never matches, and every scan *)
(* finds the rule it would find in the list without it.                    *)
C12_BadWhenNeverMatches ==
    /\ [](\A i \in 1..Len(rules) :
            BadWhen(Defs[i]) =>
              /\ \A b \in Candidates, req \in Contexts :
                    EvalPredicate(rules[i].match, b, <<req>>) = "F"
              /\ \A c \in CallIds : \A j \in 1..Len(calls[c].matches) :
                    calls[c].matches[j].rule.no # i)
    /\ [](\A c \in CallIds : \A j \in 1..Len(calls[c].scans) :
            LET good == WithoutBadWhen(calls[c].rules, Defs)
                m == calls[c].scans[j]
                g == match(good, calls[c].batch[j], <<calls[c].given>>)
            IN  /\ m.found = g.found
                /\ m.found = "rule" => calls[c].rules[m.at] = good[g.at])
    /\ [][UpdateConfigStep =>
            \A i \in 1..Len(Defs') :
                BadWhen(Defs'[i]) =>
                    /\ [level |-> "error", about |-> "when", no |-> i]
                          \in {logged'[k] : k \in 1..Len(logged')}
                    /\ rules'[i].no = i]_vars

\* a rule with a string for `when` sits before a well-formed one, which a
\* call matched and delivered
C12_Witness ==
    /\ Len(rules) = 2
    /\ BadWhen(Defs[1])
    /\ Get(Defs[1], "when") = Str("a")
    /\ \E c \in CallIds :
          /\ calls[c].status = "returned"
          /\ Len(calls[c].matches) = 1
          /\ calls[c].matches[1].rule.no = 2
          /\ Fired(c, 1)

----------------------------------------------------------------------------
\* the `then` of a definition is a number, a string or a boolean
ScalarThen(def) == Get(def, "then").t \in {"number", "string", "boolean"}

\* the response an empty override template gives for bid b
DefaultsOnly(b, req) == replace(replacer(Obj(<<>>), 1), b, <<req>>)

\* the log holds the error about field `about` of rule i
ErrorLogged(log, about, i) ==
    \E k \in 1..Len(log) :
        log[k] = [level |-> "error", about |-> about, no |-> i]

(* C13 (auxiliary): the generator of a rule whose `then` is a number, a    *)
(* string or a boolean, falsy ones included, returns the defaults-only     *)
(* response for every bid.                                                 *)
ScalarThenGivesDefaults ==
    \A i \in 1..Len(rules) :
        ScalarThen(Defs[i]) =>
            \A b \in ProbeBids :
                replace(rules[i].replace, b, <<Request(<<b>>)>>)
                    = DefaultsOnly(b, Request(<<b>>))

(* C13: for every `then` that is a number, a string or a boolean, falsy    *)
(* ones included, compiling the rule logs a definition error, and the      *)
(* generator returns the defaults-only response for every bid.             *)
C13_ScalarThenLoggedAndDefaulted ==
    /\ []ScalarThenGivesDefaults
    /\ [][UpdateConfigStep =>
            \A i \in 1..Len(Defs') :
                ScalarThen(Defs'[i]) => ErrorLogged(logged', "then", i)]_vars

----------------------------------------------------------------------------
\* a response with requestId, width and height present and isDebug true
FullyDefaulted(r) ==
    /\ r.t = "object"
    /\ Has(r, "requestId") /\ Has(r, "width") /\ Has(r, "height")
    /\ Get(r, "isDebug") = Bool(TRUE)

(* C14: for every compiled rule and every bid, whatever its mediaType and  *)
(* mediaTypes are, the response the rule's generator made is null or holds *)
(* requestId, width and height, with isDebug true.                         *)
C14_ResponseFullyDefaulted ==
    \A c \in CallIds : \A i \in 1..Len(calls[c].deliveries) :
        LET r == calls[c].deliveries[i].mockResponse
        IN  r = Null \/ FullyDefaulted(r)

(* C14 (auxiliary): isDebug is true in every response made, also when the  *)
(* override template sets it to false.                                     *)
MarkerAlwaysTrue ==
    \A c \in CallIds : \A i \in 1..Len(calls[c].deliveries) :
        LET r == calls[c].deliveries[i].mockResponse
        IN  r # Null => Get(r, "isDebug") = Bool(TRUE)

----------------------------------------------------------------------------
(* C15: every compiled rule, whatever its paapi definition was, has a      *)
(* paapi generator, and every call of it returns a sequence, never null    *)
(* or undefined (and raises nothing).                                      *)
C15_PaapiAlwaysSequence ==
    \A i \in 1..Len(rules) :
        /\ rules[i].paapi.kind # "undefined"
        /\ \A b \in ProbeBids :
              paapi(rules[i].paapi, <<b, Request(<<b>>)>>).t = "array"

----------------------------------------------------------------------------
\* the raw auxiliary configs delivery d of call c was made from: the paapi
\* array of the rule's definition, or what its paapi function returned
RawPaapi(c, d) ==
    LET def == Get(Defs[d.no], "paapi")
        raw == IF TypeOf(def) = "function"
               THEN Call(def, <<d.bid, calls[c].given>>)
               ELSE def
    IN  IF raw.t = "array" THEN raw.a ELSE <<>>

\* entry e has a key outside {config, igb}
ForeignKey(e) ==
    \E k \in 1..Len(Keys(e)) : Keys(e)[k] \notin {"config", "igb"}

(* C16: the auxiliary configs of every delivery are the raw sequence of    *)
(* the rule's paapi definition normalized entry by entry, same length and  *)
(* order: an entry with a key outside {config, igb} became {config:        *)
(* entry}, any other entry is passed through unchanged.                    *)
C16_PaapiEntriesNormalized ==
    \A c \in CallIds : \A i \in 1..Len(calls[c].deliveries) :
        LET d == calls[c].deliveries[i]
            raw == RawPaapi(c, d)
            out == d.mockPaapi.a
        IN  /\ Len(out) = Len(raw)
            /\ \A k \in 1..Len(raw) :
                  out[k] = IF ForeignKey(raw[k])
                           THEN Obj(<< <<"config", raw[k]>> >>)
                           ELSE raw[k]

\* a delivery with a wrapped entry and an entry passed through has run and
\* handed both to addPaapiConfig
C16_Witness ==
    \E c \in CallIds : \E i \in 1..Len(calls[c].deliveries) :
        LET d == calls[c].deliveries[i]
            raw == RawPaapi(c, d)
        IN  /\ Len(raw) = 2
            /\ ForeignKey(raw[1]) /\ ~ForeignKey(raw[2])
            /\ Fired(c, i)
            /\ \E p \in SidePos(c, i) :
                  /\ events[p].op = "addPaapiConfig"
                  /\ events[p].arg = raw[2]

----------------------------------------------------------------------------
\* the evaluated override template of delivery d of call c: what the `then`
\* of the rule's definition gives for the delivery's bid
Override(c, d) ==
    LET def == Get(Defs[d.no], "then")
        args == <<d.bid, calls[c].given>>
    IN  IF TypeOf(def) = "function" THEN Call(def, args)
        ELSE IF def.t = "object" THEN replFn(args, def)
        ELSE Obj(<<>>)

\* the keys of object o, as a set
KeySet(o) == {Keys(o)[k] : k \in 1..Len(Keys(o))}

----------------------------------------------------------------------------
\* the step is a call of serializeConfig: its outcome is there afterwards and
\* no callback ran and no time passed
SerializeCall == serialized'.called /\ timers' = timers /\ calls' = calls

\* how many entries of log are the warning that names position i
Warnings(log, i) ==
    Cardinality({k \in 1..Len(log) :
        log[k] = [level |-> "warn", about |-> "serialize", no |-> i]})

\* definition def sets options.suppressWarnings
Suppressed(def) == Truthy(Opt(Opt(def, "options"), "suppressWarnings"))

(* C18: serializeConfig returns exactly the definitions given that hold no *)
(* non-serializable value, in the order given; it logs one warning naming  *)
(* the 1-based position of each excluded definition that does not set      *)
(* options.suppressWarnings, and nothing else.                             *)
C18_SerializeFiltersAndWarns ==
    [][SerializeCall =>
        LET given == serialized'.given
        IN  /\ serialized'.ret =
                  SelectSeq(given, LAMBDA d : ~hasNonSerializableProperty(d))
            /\ \A i \in 1..Len(given) :
                  Warnings(logged', i) =
                      IF hasNonSerializableProperty(given[i])
                         /\ ~Suppressed(given[i])
                      THEN 1 ELSE 0
            /\ \A k \in 1..Len(logged') :
                  /\ logged'[k].level = "warn"
                  /\ logged'[k].no \in 1..Len(given)]_vars

\* serializeConfig was given a serializable definition and, second, one with
\* a regular expression: it returned the first and warned about #2
C18_Witness ==
    /\ serialized.called
    /\ serialized.given = <<Companion, DefRegex>>
    /\ serialized.ret = <<Companion>>
    /\ logged = <<[level |-> "warn", about |-> "serialize", no |-> 2]>>

\* serializeConfig was given a definition with a function that sets
\* options.suppressWarnings: it left it out and logged nothing
C18_SuppressedReached ==
    /\ serialized.called
    /\ serialized.given = <<DefFnQuiet, Companion>>
    /\ serialized.ret = <<Companion>>
    /\ logged = <<>>

----------------------------------------------------------------------------
(* C19: a call of serializeConfig leaves the compiled rule list, the       *)
(* configuration and its definitions, and every call in flight as they     *)
(* were; the rules stay those compiled from the configuration loaded last. *)
C19_SerializeChangesNothing ==
    /\ [][SerializeCall =>
            /\ rules' = rules /\ lastConfig' = lastConfig
            /\ heap' = heap /\ events' = events]_vars
    /\ [](serialized.called => rules = compileRules(lastConfig))

\* a rule with a regular expression matched a bid; serializeConfig was then
\* called and left the rule's definition out; the rule's response was
\* delivered all the same
C19_Witness ==
    /\ serialized.called
    /\ serialized.given = <<DefRegex>>
    /\ serialized.ret = <<>>
    /\ \E c \in CallIds :
          /\ Len(calls[c].matches) = 1
          /\ calls[c].matches[1].rule = rules[1]
          /\ Fired(c, 1)
          /\ \E p \in SidePos(c, 1) : events[p].op = "addBid"

----------------------------------------------------------------------------
\* the bids of the bidRequest call c returned
ReturnedRequestBids(c) == Get(heap[calls[c].ret.bidRequest], "bids")

(* C20: for every call that returned, also when `bids` was given and is    *)
(* not bidRequest.bids and when nothing matched, the bids returned and the *)
(* bids of the bidRequest returned are the same sequence: the bids that    *)
(* matched no rule.                                                        *)
C20_ReturnedBidsAgree ==
    \A c \in CallIds :
        calls[c].status = "returned" =>
            /\ calls[c].ret.bids = ReturnedRequestBids(c)
            /\ calls[c].ret.bids = Arr(Unmatched(c))

(* C20 (auxiliary): the two agree whenever a bid matched or `bids` was     *)
(* left out.                                                               *)
ReturnedBidsAgreeUnlessGivenAndNoMatch ==
    \A c \in CallIds :
        /\ calls[c].status = "returned"
        /\ Len(calls[c].matches) > 0 \/ Nullish(calls[c].bids)
        => /\ calls[c].ret.bids = ReturnedRequestBids(c)
           /\ calls[c].ret.bids = Arr(Unmatched(c))

----------------------------------------------------------------------------
\* everything delivery i of call c invoked, done included, in order
DeliveryTrace(c, i) ==
    LET es == SelectSeq(events, LAMBDA e : e.call = c /\ e.idx = i)
    IN  [k \in 1..Len(es) |-> <<es[k].op, es[k].arg, es[k].bid>>]

\* the side effects delivery i of call c is to make, in order
DueSideEffects(c, i) ==
    LET d == calls[c].deliveries[i]
    IN  (IF d.mockResponse # Null
         THEN << <<"addBid", d.mockResponse, d.bid>> >> ELSE <<>>)
        \o [j \in 1..Len(d.mockPaapi.a) |->
              <<"addPaapiConfig", d.mockPaapi.a[j], d.bid>>]

(* C22: what a delivery that has run invoked is, in this order: addBid     *)
(* with the response and the originating bid if the response is not null,  *)
(* addPaapiConfig once per auxiliary config in the generator's order, and  *)
(* after all of these at most the call's done; a delivery that has not run *)
(* invoked nothing, and each one that has lowered the countdown by one.    *)
C22_DeliveryOrder ==
    \A c \in CallIds : \A i \in 1..Len(calls[c].deliveries) :
        LET tr == DeliveryTrace(c, i)
            due == DueSideEffects(c, i)
        IN  /\ ~Fired(c, i) => tr = <<>>
            /\ Fired(c, i) =>
                 /\ Len(tr) \in {Len(due), Len(due) + 1}
                 /\ SubSeq(tr, 1, Len(due)) = due
                 /\ Len(tr) = Len(due) + 1 => tr[Len(tr)][1] = "done"
            /\ calls[c].latch + Cardinality(FiredSet(c))
                 = Len(calls[c].matches)

\* a delivery with a response and an auxiliary config has run and was the
\* one that invoked done: addBid, addPaapiConfig, done
C22_Witness ==
    \E c \in CallIds : \E i \in FiredSet(c) :
        /\ Len(DeliveryTrace(c, i)) = 3
        /\ DeliveryTrace(c, i)[1][1] = "addBid"
        /\ DeliveryTrace(c, i)[2][1] = "addPaapiConfig"
        /\ DeliveryTrace(c, i)[3][1] = "done"

----------------------------------------------------------------------------
\* the generator calls a call of n matches is to make: replace and paapi of
\* the first match, then of the second, and so on
DueEvaluations(c) ==
    [k \in 1..(2 * Len(calls[c].matches)) |->
        <<IF k % 2 = 1 THEN "replace" ELSE "paapi",
          calls[c].matches[(k + 1) \div 2].rule.no,
          calls[c].matches[(k + 1) \div 2].bid>>]

(* C23: when intercept returns, the replace and the paapi generator of     *)
(* every match have been called exactly once each, in match order, and the *)
(* deliveries hold their results; while the call's callbacks run, no       *)
(* generator is called and the values to deliver stay as they are.         *)
C23_SynthesisBeforeReturn ==
    /\ [](\A c \in CallIds :
            calls[c].status = "returned" =>
              /\ [k \in 1..Len(calls[c].evals) |->
                    <<calls[c].evals[k].gen, calls[c].evals[k].no,
                      calls[c].evals[k].bid>>] = DueEvaluations(c)
              /\ Len(calls[c].deliveries) = Len(calls[c].matches)
              /\ \A i \in 1..Len(calls[c].matches) :
                    LET m == calls[c].matches[i]
                        d == calls[c].deliveries[i]
                    IN  /\ d.mockResponse
                             = replace(m.rule.replace, m.bid, <<calls[c].given>>)
                        /\ d.mockPaapi
                             = paapi(m.rule.paapi, <<m.bid, calls[c].given>>))
    /\ [][\A c \in CallIds :
            (calls[c].status = "returned" /\ calls'[c].status = "returned") =>
              /\ calls'[c].evals = calls[c].evals
              /\ calls'[c].deliveries = calls[c].deliveries]_vars

\* both deliveries of a call of two matches have run, four generator calls
\* having been made, all of them before the call returned
C23_Witness ==
    \E c \in CallIds :
        /\ calls[c].status = "returned"
        /\ Len(calls[c].evals) = 4
        /\ FiredSet(c) = {1, 2}

----------------------------------------------------------------------------
\* the candidate lacks a field that rule k's mapping has a nested mapping or
\* null for
LacksNestedField(rs, k, b) ==
    /\ rs[k].match.kind = "matches"
    /\ \E j \in 1..Len(RefEntries(rs[k].match.def)) :
          LET key == rs[k].match.def.e[j][1]
              val == rs[k].match.def.e[j][2]
          IN  TypeOf(val) = "object" /\ val.t # "regexp" /\ ~Has(b, key)

(* C26: when a rule's mapping has a nested mapping (or null) at a key and  *)
(* the candidate lacks that field, the predicate reports no match: the     *)
(* scan of that bid goes on to the later rules and ends with a rule or     *)
(* with none, never with an exception.                                     *)
C26_MissingFieldIsNoMatch ==
    \A c \in CallIds : \A j \in 1..Len(calls[c].scans) :
        \A k \in 1..Len(calls[c].rules) :
            LacksNestedField(calls[c].rules, k, calls[c].batch[j]) =>
                /\ calls[c].scans[j].found # "throw"
                /\ Pred(calls[c].rules, k, calls[c].batch[j],
                        GivenRequest(c)) = "F"

----------------------------------------------------------------------------
(* C28: every addPaapiConfig invocation gets the originating matched bid   *)
(* as its second argument and, as its third, the bidRequest object that    *)
(* was passed to intercept, whose bid list holds that bid.                 *)
C28_PaapiGetsGivenRequest ==
    \A c \in CallIds : \A p \in Pos(c) :
        events[p].op = "addPaapiConfig" =>
            /\ events[p].bid = calls[c].matches[events[p].idx].bid
            /\ events[p].req = calls[c].req
            /\ \E k \in 1..Len(Get(heap[events[p].req], "bids").a) :
                  Get(heap[events[p].req], "bids").a[k] = events[p].bid

(* C28 (auxiliary): the second argument of every addPaapiConfig invocation *)
(* is the originating matched bid.                                         *)
PaapiGetsOriginatingBid ==
    \A c \in CallIds : \A p \in Pos(c) :
        events[p].op = "addPaapiConfig" =>
            events[p].bid = calls[c].matches[events[p].idx].bid

----------------------------------------------------------------------------
\* the step loads a configuration
ConfigChanges == rules' # rules \/ lastConfig' # lastConfig

\* call c returned under a rule list that has been replaced since
Outdated(c) == calls[c].status = "returned" /\ calls[c].rules # rules

(* C24: a call of updateConfig leaves the calls in flight, their pending   *)
(* callbacks and what they delivered as they are; every delivery of a call *)
(* passes the response and the auxiliary configs of the rule that matched  *)
(* at the call, after that rule's delay, and done is invoked once per      *)
(* call; a call made after the update matches against the new list only.   *)
C24_UpdateSparesCallsInFlight ==
    /\ [][ConfigChanges =>
            /\ calls' = calls /\ timers' = timers
            /\ events' = events /\ heap' = heap]_vars
    /\ [](\A c \in CallIds :
            calls[c].status = "returned" =>
              /\ \A i \in 1..Len(calls[c].matches) :
                    LET m == calls[c].matches[i]
                        d == calls[c].deliveries[i]
                    IN  /\ \E k \in 1..Len(calls[c].rules) :
                              m.rule = calls[c].rules[k]
                        /\ d.mockResponse
                             = replace(m.rule.replace, m.bid, <<calls[c].given>>)
                        /\ d.mockPaapi
                             = paapi(m.rule.paapi, <<m.bid, calls[c].given>>)
                        /\ Fired(c, i) => SideEffects(c, i) = DueSideEffects(c, i)
                        /\ \A tm \in Pending(c) :
                              tm.idx = i =>
                                  tm.remaining <= Get(m.rule.options, "delay").n
              /\ Cardinality(DonePos(c)) <= 1
              /\ Pending(c) = {} => Cardinality(DonePos(c)) = 1)
    /\ [][\A c \in CallIds :
            (calls[c].status = "idle" /\ calls'[c].status # "idle") =>
              /\ calls'[c].rules = rules
              /\ calls'[c].matches
                   = matchAll(rules, calls'[c].batch, calls'[c].given).matches]_vars

\* a call matched a bid under a rule with a delay; the rule list was then
\* replaced by one with another response for that bid; the delivery ran
\* afterwards, with the first rule's response, and done was invoked
C24_Witness ==
    \E c \in CallIds :
        /\ Outdated(c)
        /\ Len(rules) = 1
        /\ Len(calls[c].matches) = 1
        /\ calls[c].matches[1].rule # rules[1]
        /\ Pred(rules, 1, calls[c].matches[1].bid, calls[c].given) = "T"
        /\ Fired(c, 1)
        /\ SideEffects(c, 1) # <<>>
        /\ calls[c].deliveries[1].mockResponse
             # replace(rules[1].replace, calls[c].matches[1].bid,
                       <<calls[c].given>>)
        /\ DonePos(c) # {}

----------------------------------------------------------------------------
\* the calls in flight other than c
Others(c) == {k \in CallIds \ {c} : calls[k].status # "idle"}

(* C30: with several calls in flight, the countdown of a call stands at    *)
(* the number of its own deliveries that have not run, whatever the other  *)
(* calls' deliveries did; its done is invoked at most once, only after all *)
(* deliveries of that call, and is there once they all have run.           *)
C30_OneCounterPerCall ==
    \A c \in CallIds :
        calls[c].status = "returned" =>
            /\ calls[c].latch
                 = Len(calls[c].matches) - Cardinality(FiredSet(c))
            /\ Cardinality(DonePos(c)) <= 1
            /\ \A p \in DonePos(c) :
                  /\ FiredSet(c) = 1..Len(calls[c].matches)
                  /\ \A i \in FiredSet(c) : \A q \in SidePos(c, i) : q < p
            /\ Pending(c) = {} => Cardinality(DonePos(c)) = 1

\* two calls in flight: the later one has had its done, with all its
\* deliveries, while a delivery of the earlier one is still pending and
\* another of it has run in between
C30_Witness ==
    /\ calls[1].status = "returned" /\ calls[2].status = "returned"
    /\ Len(calls[1].matches) = 2 /\ Len(calls[2].matches) >= 1
    /\ DonePos(2) # {}
    /\ DonePos(1) = {}
    /\ Cardinality(FiredSet(1)) = 1
    /\ \E p \in SidePos(1, 1) \cup SidePos(1, 2), q \in DonePos(2) : p < q

----------------------------------------------------------------------------
RECURSIVE MappingHolds(_, _, _)
\* every key of mapping ref passes its check against the field of candidate:
\* a pattern by matching it, a function by a truthy result on (field,
\* ...context), a nested mapping by holding of the field, any other value by
\* being the field
MappingHolds(ref, candidate, context) ==
    \A j \in 1..Len(ref.e) :
        LET val == ref.e[j][2]
            field == Opt(candidate, ref.e[j][1])
        IN  CASE val.t = "regexp" -> StringOf(field) \in val.accepts
              [] val.t = "function" -> Truthy(Call(val, <<field>> \o context))
              [] val.t = "object" -> MappingHolds(val, field, context)
              [] OTHER -> field = val

\* the rules compiled from a mapping
MappingRules == {i \in 1..Len(rules) : rules[i].match.kind = "matches"}

(* C25: whenever the predicate compiled from a mapping returns for a       *)
(* candidate, it returns true if and only if every key of the mapping      *)
(* passes its check against the candidate's field; a scan reports such a   *)
(* rule only when all its keys passed, and went past it only when one did  *)
(* not.                                                                    *)
C25_MappingIsConjunction ==
    /\ \A i \in MappingRules : \A b \in ProbeBids :
          LET r == EvalPredicate(rules[i].match, b, <<Request(<<b>>)>>)
          IN  r # "X" =>
                (r = "T" <=> MappingHolds(rules[i].match.def, b,
                                          <<Request(<<b>>)>>))
    /\ \A c \in CallIds : \A j \in 1..Len(calls[c].scans) :
          LET s == calls[c].scans[j]
              rs == calls[c].rules
              holds(k) == MappingHolds(rs[k].match.def, calls[c].batch[j],
                                       <<calls[c].given>>)
          IN  s.found = "rule" =>
                /\ rs[s.at].match.kind = "matches" => holds(s.at)
                /\ \A k \in 1..(s.at - 1) :
                      rs[k].match.kind = "matches" => ~holds(k)

\* a bid was matched by the rule after {bidder: v => v === 'a', bidId: '1'},
\* of which one key passes and the other does not
C25_Witness ==
    \E c \in CallIds :
        /\ Len(calls[c].rules) = 2
        /\ calls[c].rules[1].match.def = WhenFnAndValue
        /\ Len(calls[c].scans) = 1
        /\ calls[c].scans[1].found = "rule"
        /\ calls[c].scans[1].at = 2
        /\ Get(calls[c].batch[1], "bidder") = Str("a")

\* a bid was matched by the mapping with a pattern, a function given the
\* context and a nested mapping
C25_AllKindsReached ==
    \E c \in CallIds :
        /\ Len(calls[c].matches) = 1
        /\ calls[c].matches[1].rule.match.def = WhenPatternAndNested

----------------------------------------------------------------------------
\* the first entry of the list at mediaTypes[type][key] of bid b, or none
FirstSize(b, type, key) ==
    LET l == Opt(Opt(Opt(b, "mediaTypes"), type), key)
    IN  IF l.t = "array" /\ Len(l.a) > 0 THEN l.a[1] ELSE Undefined

\* the media types bid b declares, in the order declared
Declared(b) == Keys(Opt(b, "mediaTypes"))

\* response r has width w and height h
Sized(r, w, h) == Get(r, "width") = w /\ Get(r, "height") = h

(* C27: the response made for a bid with no override has the bid's bidId   *)
(* as requestId; if the bid has no mediaType of its own, the response's    *)
(* mediaType is the first media type the bid declares, banner when it      *)
(* declares none; a banner response has the size of the first banner size  *)
(* declared or 300x250, a video response that of the first player size     *)
(* declared or 600x500.                                                    *)
C27_ResponseDefaulting ==
    \A c \in CallIds : \A i \in 1..Len(calls[c].deliveries) :
        LET d == calls[c].deliveries[i]
            b == d.bid
            r == d.mockResponse
            mt == Get(r, "mediaType")
        IN  (r # Null /\ Override(c, d) = Obj(<<>>)) =>
              /\ Get(r, "requestId") = Get(b, "bidId")
              /\ ~Has(b, "mediaType") =>
                    mt = IF Len(Declared(b)) > 0
                         THEN Str(Declared(b)[1]) ELSE BANNER
              /\ mt = BANNER =>
                    IF FirstSize(b, "banner", "sizes") # Undefined
                    THEN Sized(r, FirstSize(b, "banner", "sizes").a[1],
                                  FirstSize(b, "banner", "sizes").a[2])
                    ELSE Sized(r, Num(300), Num(250))
              /\ mt = VIDEO =>
                    IF FirstSize(b, "video", "playerSize") # Undefined
                    THEN Sized(r, FirstSize(b, "video", "playerSize").a[1],
                                  FirstSize(b, "video", "playerSize").a[2])
                    ELSE Sized(r, Num(600), Num(500))

\* the response for a video bid with a 640x480 player was passed to addBid
C27_Witness ==
    \E c \in CallIds : \E i \in FiredSet(c) :
        LET d == calls[c].deliveries[i]
        IN  /\ Override(c, d) = Obj(<<>>)
            /\ Get(d.mockResponse, "mediaType") = VIDEO
            /\ Sized(d.mockResponse, Num(640), Num(480))
            /\ Get(d.mockResponse, "requestId") = Str("5")
            /\ \E p \in SidePos(c, i) : events[p].arg = d.mockResponse

----------------------------------------------------------------------------
(* C29: also when an addBid or addPaapiConfig callback raises while a      *)
(* delivery runs, every delivery that has run has signalled its unit of    *)
(* completion, and done has been invoked exactly once when every delivery  *)
(* of the call has run.                                                    *)
C29_CompletionDespiteRaise ==
    \A c \in CallIds :
        (calls[c].status = "returned" /\ Len(calls[c].matches) > 0) =>
            /\ calls[c].latch
                 = Len(calls[c].matches) - Cardinality(FiredSet(c))
            /\ FiredSet(c) = 1..Len(calls[c].matches)
                  => Cardinality(DonePos(c)) = 1

----------------------------------------------------------------------------
(* The rise adapter's cs_method *)

\* the parameters of the request the last buildRequests call returned
RiseParams == Get(Get(riseRequest.ret, "data"), "params")

\* the filter setting named key of the configuration that call read
SeenSetting(key) ==
    Opt(Opt(riseRequest.userSync, "filterSettings"), key)

\* the configuration that call read has syncEnabled true
SeenEnabled == Opt(riseRequest.userSync, "syncEnabled") = Bool(TRUE)

\* a filter setting lists the bidder: by name, or with the wildcard
Lists(setting, bidder) ==
    LET bidders == Opt(setting, "bidders")
    IN  \/ bidders = Str("*")
        \/ /\ bidders.t = "array"
           /\ \E i \in 1..Len(bidders.a) : bidders.a[i] = Str(bidder)

IncludesBidder(setting, bidder) ==
    Opt(setting, "filter") = Str("include") /\ Lists(setting, bidder)

ExcludesBidder(setting, bidder) ==
    Opt(setting, "filter") = Str("exclude") /\ Lists(setting, bidder)

IframePermitted ==
    \/ IncludesBidder(SeenSetting("all"), BIDDER_CODE)
    \/ IncludesBidder(SeenSetting("iframe"), BIDDER_CODE)

BothExcluded ==
    /\ ExcludesBidder(SeenSetting("image"), BIDDER_CODE)
    /\ ExcludesBidder(SeenSetting("iframe"), BIDDER_CODE)

\* C21 (as stated): buildRequests sets params.cs_method to 'iframe' when
\* syncEnabled is true and the 'all' or the 'iframe' filter setting includes
\* the bidder, and leaves cs_method absent when syncEnabled is false or when
\* both the 'image' and the 'iframe' filter settings exclude the bidder.
C21_CsMethodAsStated ==
    riseRequest.built =>
        /\ (SeenEnabled /\ IframePermitted)
               => Get(RiseParams, "cs_method") = Str("iframe")
        /\ (~SeenEnabled \/ BothExcluded) => ~Has(RiseParams, "cs_method")

\* C21 (amended): buildRequests sets params.cs_method to 'iframe' when
\* syncEnabled is true and the 'all' or the 'iframe' filter setting includes
\* the bidder, and leaves cs_method absent when syncEnabled is false, or when
\* both the 'image' and the 'iframe' filter settings exclude the bidder and
\* the 'all' setting does not include it.
C21_CsMethod ==
    riseRequest.built =>
        /\ (SeenEnabled /\ IframePermitted)
               => Get(RiseParams, "cs_method") = Str("iframe")
        /\ (~SeenEnabled \/ (BothExcluded /\ ~IframePermitted))
               => ~Has(RiseParams, "cs_method")

\* a request built under total exclusion with syncEnabled true, and without
\* cs_method
C21_Witness ==
    /\ riseRequest.built
    /\ SeenEnabled
    /\ BothExcluded
    /\ ~IframePermitted
    /\ ~Has(RiseParams, "cs_method")

\* requests built with cs_method 'iframe' by the 'all' setting and by the
\* 'iframe' setting, and one built with syncEnabled false
C21_IframeByAll ==
    /\ riseRequest.built
    /\ SeenEnabled
    /\ IncludesBidder(SeenSetting("all"), BIDDER_CODE)
    /\ ~IncludesBidder(SeenSetting("iframe"), BIDDER_CODE)
    /\ Get(RiseParams, "cs_method") = Str("iframe")

C21_IframeByIframe ==
    /\ riseRequest.built
    /\ SeenEnabled
    /\ ~IncludesBidder(SeenSetting("all"), BIDDER_CODE)
    /\ IncludesBidder(SeenSetting("iframe"), BIDDER_CODE)
    /\ Get(RiseParams, "cs_method") = Str("iframe")

C21_Disabled ==
    /\ riseRequest.built
    /\ ~SeenEnabled
    /\ IframePermitted
    /\ ~Has(RiseParams, "cs_method")

----------------------------------------------------------------------------
(* Who invokes addBid, addPaapiConfig and done *)

\* this step is the intercept call that goes by c
InterceptStep(c) == calls[c].status = "idle" /\ calls'[c].status # "idle"

\* the callbacks this step hands to the scheduling primitive
HandedOver == timers' \ timers

\* this step invokes addBid, addPaapiConfig or done
Invokes == Len(events') > Len(events)

\* this step is the scheduling primitive running one callback that is due,
\* and what is invoked in it is invoked for that callback's call
RunsCallback ==
    \E tm \in timers :
        /\ tm.remaining = 0
        /\ timers' = timers \ {tm}
        /\ \A p \in (Len(events) + 1)..Len(events') : events'[p].call = tm.call

\* one callback per match of call c, with the delay of the match's rule, or
\* the one callback of done with delay 0 when there is no match
CallbacksDue(c) ==
    LET ms == calls'[c].matches
    IN  IF Len(ms) > 0
        THEN {[call |-> c, kind |-> "delivery", idx |-> i,
               remaining |-> Get(ms[i].rule.options, "delay").n] :
                 i \in 1..Len(ms)}
        ELSE {[call |-> c, kind |-> "done", idx |-> 0, remaining |-> 0]}

(* C31: intercept itself never invokes addBid, addPaapiConfig or done:     *)
(* every invocation of them happens inside a callback handed to the        *)
(* scheduling primitive, and one intercept call hands over exactly one     *)
(* callback per match, with that match's rule delay, when there are        *)
(* matches, and exactly one callback, done with delay 0, when there are    *)
(* none.                                                                   *)
C31_CallbacksOnly ==
    [][/\ \A c \in CallIds :
             InterceptStep(c) =>
                 /\ events' = events
                 /\ HandedOver = CallbacksDue(c)
       /\ Invokes => RunsCallback]_vars

\* what does hold: no invocation outside a callback, and the callbacks as
\* stated for every call that returns
CallbacksWhenReturned ==
    [][/\ \A c \in CallIds :
             InterceptStep(c) =>
                 /\ events' = events
                 /\ calls'[c].status = "returned"
                        => HandedOver = CallbacksDue(c)
       /\ Invokes => RunsCallback]_vars

----------------------------------------------------------------------------
(* What intercept leaves alone *)

\* the bids the caller handed to call c, as they are now: its own list, or
\* the bid list of its bidRequest object when it passed none
InputBidsNow(c) ==
    IF Nullish(calls[c].bids) THEN Get(heap[calls[c].req], "bids")
    ELSE calls[c].bids

\* this step is call c being made, or a callback of call c being run
StepOfCall(c) ==
    \/ InterceptStep(c)
    \/ \E tm \in timers :
          tm.call = c /\ tm.remaining = 0 /\ timers' = timers \ {tm}

(* C32: intercept leaves the caller's input unchanged: after the call, and *)
(* after all its deliveries have fired, the input bidRequest object still  *)
(* has its original bid list, matched bids included, the input bids        *)
(* sequence is unchanged, and the active rule list is unchanged.           *)
C32_InputUnchanged ==
    /\ [](\A c \in CallIds :
            calls[c].status # "idle" =>
                /\ heap[calls[c].req] = calls[c].given
                /\ InputBidsNow(c) = Arr(calls[c].batch)
                /\ \A i \in 1..Len(calls[c].matches) :
                      \E k \in 1..Len(InputBidsNow(c).a) :
                          InputBidsNow(c).a[k] = calls[c].matches[i].bid)
    /\ [][\A c \in CallIds :
            /\ StepOfCall(c) => rules' = rules
            /\ (calls[c].status # "idle" /\ calls'[c].status # "idle")
                  => calls'[c].bids = calls[c].bids]_vars

\* a call that was given no bids list matched a bid of its bidRequest and
\* left another; its deliveries have run and done was invoked; the caller's
\* bidRequest still lists both bids while the returned one lists one
C32_Witness ==
    \E c \in CallIds :
        /\ calls[c].status = "returned"
        /\ Nullish(calls[c].bids)
        /\ Len(calls[c].matches) = 1
        /\ Len(calls[c].remainder) = 1
        /\ Pending(c) = {}
        /\ DonePos(c) # {}
        /\ Len(Get(heap[calls[c].req], "bids").a) = 2
        /\ Len(Get(heap[calls[c].ret.bidRequest], "bids").a) = 1
        /\ rules = calls[c].rules

\* the same with a bids list of the caller's own that holds a matched bid
C32_OwnListReached ==
    \E c \in CallIds :
        /\ calls[c].status = "returned"
        /\ ~Nullish(calls[c].bids)
        /\ Len(calls[c].matches) > 0
        /\ Pending(c) = {}
        /\ DonePos(c) # {}
        /\ calls[c].ret.bids # calls[c].bids
====
